---- MODULE Spec2Model ----
(***************************************************************************)
(* Resume shortlisting core: the scoring engine (core/scoring.py) and the  *)
(* text extractor (core/parsing.py).  Strings are sequences of one-        *)
(* character strings, so substring search, case folding and sorting are    *)
(* computed rather than assumed.                                           *)
(***************************************************************************)
EXTENDS Integers, Sequences, FiniteSets, TLC

VARIABLES
  resume_text,  \* the resume text the caller scores
  jd_text,      \* the job-description text it is scored against
  service,      \* how the inference service answers this caller's requests
  hashSeed,     \* the string-hash seed of the running process
  _client,      \* scoring.py's module-level client (None until first use)
  audit,        \* the lines of the audit log file, oldest first
  calls,        \* one record per finished invocation of score_resume_with_llm
  pending,      \* invocations the caller has still to make
  filename,     \* the name of the uploaded file
  b,            \* its bytes
  pdf,          \* what the PDF library makes of these bytes
  docx,         \* what the word-processor library makes of these bytes
  extracted,    \* the outcome of extract_text_from_bytes, once it has run
  cv,           \* the resume text handed to a field extractor of parsing.py
  cv_emails,    \* the emails argument of extract_name
  vocabulary,   \* the skills_master argument of extract_skills
  clock,        \* the current date, as datetime.now() and dateparser see it
  dateparser,   \* what the date library does with a word it does not know
  parsed        \* the outcome of the field extractor, once it has run

scoringVars == <<resume_text, jd_text, service, hashSeed, _client, audit, calls, pending>>

extractionVars == <<filename, b, pdf, docx, extracted>>

parsingVars == <<cv, cv_emails, vocabulary, clock, dateparser, parsed>>

vars == <<resume_text, jd_text, service, hashSeed, _client, audit, calls, pending,
          filename, b, pdf, docx, extracted,
          cv, cv_emails, vocabulary, clock, dateparser, parsed>>

(***************************************************************************)
(* Bounds of the model.                                                    *)
(***************************************************************************)
\* number of text fragments the job-description / resume samples are cut from
MaxFrags == 6
\* fragments used when the whole range of service responses is explored
PrimaryFrags == 2
\* invocations a caller makes on the same texts
MaxCalls == 2
\* distinct string-hash seeds a process may start with
NumSeeds == 2
\* length of the uploaded byte sequences
MaxBytes == 2
\* pages of an uploaded PDF
MaxPages == 2

(***************************************************************************)
(* Python string primitives.                                               *)
(***************************************************************************)
UpperLetters == <<"A","B","C","D","E","F","G","H","I","J","K","L","M","N","O","P","Q","R","S","T","U","V","W","X","Y","Z">>

LowerLetters == <<"a","b","c","d","e","f","g","h","i","j","k","l","m","n","o","p","q","r","s","t","u","v","w","x","y","z">>

\* characters in ascending code-point order (what str comparison uses)
CodePointOrder == <<" ","'",",","-",".","0","1","2","3","4","5","6","7","8","9","A","B","C","D","E","F","G","H","I","J","K","L","M","N","O","P","Q","R","S","T","U","V","W","X","Y","Z","a","b","c","d","e","f","g","h","i","j","k","l","m","n","o","p","q","r","s","t","u","v","w","x","y","z">>

Min(x, y) == IF x <= y THEN x ELSE y

Max(x, y) == IF x >= y THEN x ELSE y

Range(s) == {s[i] : i \in 1..Len(s)}

\* s[:n]
Take(s, n) == SubSeq(s, 1, Min(n, Len(s)))

lowerChar(c) ==
  IF \E i \in 1..26 : UpperLetters[i] = c
    THEN LowerLetters[CHOOSE i \in 1..26 : UpperLetters[i] = c]
    ELSE c

\* str.lower()
lower(s) == [i \in 1..Len(s) |-> lowerChar(s[i])]

\* the Python test `s in t` on strings
StrIn(s, t) == \E i \in 0..(Len(t) - Len(s)) : SubSeq(t, i + 1, i + Len(s)) = s

ord(c) == CHOOSE i \in 1..Len(CodePointOrder) : CodePointOrder[i] = c

\* x < y on strings: lexicographic by code point
StrLess(x, y) ==
  \E k \in 1..(Min(Len(x), Len(y)) + 1) :
    /\ \A i \in 1..(k - 1) : x[i] = y[i]
    /\ \/ k > Len(x) /\ k <= Len(y)
       \/ k <= Len(x) /\ k <= Len(y) /\ ord(x[k]) < ord(y[k])

\* sorted(S) for a set of strings
RECURSIVE sorted(_)
sorted(S) ==
  IF S = {} THEN <<>>
  ELSE LET m == CHOOSE x \in S : \A y \in S \ {x} : StrLess(x, y)
       IN  <<m>> \o sorted(S \ {m})

\* sep.join(items)
RECURSIVE join(_, _)
join(sep, items) ==
  IF items = <<>> THEN <<>>
  ELSE IF Len(items) = 1 THEN items[1]
  ELSE items[1] \o sep \o join(sep, Tail(items))

(***************************************************************************)
(* core/parsing.py: the controlled vocabulary and the skill extractor.     *)
(***************************************************************************)
TECH_DICTIONARY ==
  << <<"a","w","s">>,
     <<"a","m","a","z","o","n"," ","w","e","b"," ","s","e","r","v","i","c","e","s">>,
     <<"a","z","u","r","e">>,
     <<"m","i","c","r","o","s","o","f","t"," ","a","z","u","r","e">>,
     <<"g","c","p">>,
     <<"g","o","o","g","l","e"," ","c","l","o","u","d">>,
     <<"c","l","o","u","d"," ","c","o","n","s","u","l","t","i","n","g">>,
     <<"c","l","o","u","d"," ","s","a","l","e","s">>,
     <<"i","n","f","r","a","s","t","r","u","c","t","u","r","e"," ","a","s"," ","a"," ","s","e","r","v","i","c","e">>,
     <<"i","a","a","s">>,
     <<"p","l","a","t","f","o","r","m"," ","a","s"," ","a"," ","s","e","r","v","i","c","e">>,
     <<"p","a","a","s">>,
     <<"s","o","f","t","w","a","r","e"," ","a","s"," ","a"," ","s","e","r","v","i","c","e">>,
     <<"s","a","a","s">>,
     <<"v","i","r","t","u","a","l"," ","m","a","c","h","i","n","e","s">>,
     <<"v","m">>,
     <<"v","i","r","t","u","a","l","i","z","a","t","i","o","n">>,
     <<"b","a","c","k","u","p">>,
     <<"d","i","s","a","s","t","e","r"," ","r","e","c","o","v","e","r","y">>,
     <<"c","l","o","u","d"," ","s","e","c","u","r","i","t","y">>,
     <<"c","y","b","e","r","s","e","c","u","r","i","t","y">>,
     <<"e","n","t","e","r","p","r","i","s","e"," ","s","a","l","e","s">>,
     <<"b","2","b"," ","s","a","l","e","s">>,
     <<"i","n","s","i","d","e"," ","s","a","l","e","s">>,
     <<"c","h","a","n","n","e","l"," ","s","a","l","e","s">>,
     <<"a","c","c","o","u","n","t"," ","m","a","n","a","g","e","m","e","n","t">>,
     <<"k","e","y"," ","a","c","c","o","u","n","t"," ","m","a","n","a","g","e","m","e","n","t">>,
     <<"t","e","r","r","i","t","o","r","y"," ","m","a","n","a","g","e","m","e","n","t">>,
     <<"b","u","s","i","n","e","s","s"," ","d","e","v","e","l","o","p","m","e","n","t">>,
     <<"d","e","m","a","n","d"," ","g","e","n","e","r","a","t","i","o","n">>,
     <<"l","e","a","d"," ","g","e","n","e","r","a","t","i","o","n">>,
     <<"p","i","p","e","l","i","n","e"," ","m","a","n","a","g","e","m","e","n","t">>,
     <<"s","o","l","u","t","i","o","n"," ","s","e","l","l","i","n","g">>,
     <<"c","o","n","s","u","l","t","a","t","i","v","e"," ","s","e","l","l","i","n","g">>,
     <<"p","r","e","s","a","l","e","s">>,
     <<"l","i","n","k","e","d","i","n"," ","s","a","l","e","s"," ","n","a","v","i","g","a","t","o","r">>,
     <<"l","u","s","h","a">>,
     <<"s","a","l","e","s","f","o","r","c","e">>,
     <<"h","u","b","s","p","o","t">>,
     <<"c","r","m">> >>

AMAZON_WEB_SERVICES == TECH_DICTIONARY[2]

MICROSOFT_AZURE == TECH_DICTIONARY[4]

GOOGLE_CLOUD == TECH_DICTIONARY[6]

\* the "Normalize platform variants" branch of extract_skills
normalize_skill(s) ==
  IF s = AMAZON_WEB_SERVICES THEN TECH_DICTIONARY[1]
  ELSE IF s = MICROSOFT_AZURE THEN TECH_DICTIONARY[3]
  ELSE IF s = GOOGLE_CLOUD THEN TECH_DICTIONARY[5]
  ELSE s

\* the same function matching the phrases in the letter case they are written in
extract_skills_exact_case(text, skills_master) ==
  LET found == {skills_master[i] : i \in {j \in 1..Len(skills_master) :
                                            StrIn(skills_master[j], text)}}
      normalized == {normalize_skill(s) : s \in found}
  IN  sorted(normalized)

extract_skills(text, skills_master) ==
  LET t == lower(text)
      found == {skills_master[i] : i \in {j \in 1..Len(skills_master) :
                                            StrIn(lower(skills_master[j]), t)}}
      normalized == {normalize_skill(s) : s \in found}
  IN  sorted(normalized)

(***************************************************************************)
(* Sample texts: every contiguous run of the fragment list, joined by      *)
(* ", ", and the empty text.                                               *)
(***************************************************************************)
Fragments ==
  << <<"I","a","a","S"," ","a","n","d"," ","P","a","a","S">>,
     <<"K","e","y"," ","A","c","c","o","u","n","t"," ","M","a","n","a","g","e","m","e","n","t">>,
     <<"A","W","S">>,
     <<"K","V","M"," ","V","i","r","t","u","a","l","i","z","a","t","i","o","n">>,
     <<"M","i","c","r","o","s","o","f","t"," ","A","z","u","r","e">>,
     <<"A","m","a","z","o","n"," ","W","e","b"," ","S","e","r","v","i","c","e","s">>,
     <<"C","R","M">>,
     <<"H","u","b","S","p","o","t">>,
     <<"G","o","o","g","l","e"," ","C","l","o","u","d">>,
     <<"L","u","s","h","a">> >>

Comma == <<",", " ">>

Texts(n) ==
  {<<>>} \cup {join(Comma, SubSeq(Fragments, i, j)) : i \in 1..n, j \in 1..n}

\* extract_skills(t, TECH_DICTIONARY) for each sample text, computed once
Samples == Texts(Max(MaxFrags, PrimaryFrags))

SkillsOfSample == [t \in Samples |-> extract_skills(t, TECH_DICTIONARY)]

skills_in(text) ==
  IF text \in Samples THEN SkillsOfSample[text]
  ELSE extract_skills(text, TECH_DICTIONARY)

(***************************************************************************)
(* Python values as they come out of json.loads, and exceptions.           *)
(***************************************************************************)
None == [t |-> "null"]

PyInt(n) == [t |-> "int", n |-> n]

\* a float with one decimal digit, kept as a count of tenths
PyFloat(tenths) == [t |-> "float", tenths |-> tenths]

PyStr(s) == [t |-> "str", s |-> s]

PyBool(v) == [t |-> "bool", v |-> v]

PyList(items) == [t |-> "list", items |-> items]

\* a dict; a key that is absent is outside DOMAIN fields
PyDict(fields) == [t |-> "object", fields |-> fields]

Ok(v) == [ok |-> TRUE, v |-> v]

Raise(exc) == [ok |-> FALSE, exc |-> exc]

Digits == <<"0", "1", "2", "3", "4", "5", "6", "7", "8", "9">>

IsDigit(c) == \E i \in 1..10 : Digits[i] = c

DigitValue(c) == (CHOOSE i \in 1..10 : Digits[i] = c) - 1

IsSpace(c) == c \in {" ", "\n", "\t"}

\* str.strip()
RECURSIVE lstrip(_)
lstrip(s) == IF s # <<>> /\ IsSpace(s[1]) THEN lstrip(Tail(s)) ELSE s

RECURSIVE rstrip(_)
rstrip(s) ==
  IF s # <<>> /\ IsSpace(s[Len(s)]) THEN rstrip(SubSeq(s, 1, Len(s) - 1)) ELSE s

strip(s) == rstrip(lstrip(s))

\* str(n) for a natural number
RECURSIVE NatToStr(_)
NatToStr(n) ==
  IF n < 10 THEN <<Digits[n + 1]>>
  ELSE NatToStr(n \div 10) \o <<Digits[(n % 10) + 1]>>

IntToStr(n) == IF n < 0 THEN <<"-">> \o NatToStr(-n) ELSE NatToStr(n)

RECURSIVE DigitsToNat(_)
DigitsToNat(s) ==
  IF s = <<>> THEN 0
  ELSE 10 * DigitsToNat(SubSeq(s, 1, Len(s) - 1)) + DigitValue(s[Len(s)])

\* int(s) for a str: surrounding whitespace and one sign allowed, then digits
int_of_str(s) ==
  LET u == strip(s)
      signed == u # <<>> /\ u[1] \in {"+", "-"}
      body == IF signed THEN Tail(u) ELSE u
  IN  IF body # <<>> /\ \A i \in 1..Len(body) : IsDigit(body[i])
        THEN Ok(IF signed /\ u[1] = "-" THEN -DigitsToNat(body)
                ELSE DigitsToNat(body))
        ELSE Raise("ValueError")

\* bool(v): the truth value used by `v or 0`
truthy(v) ==
  CASE v.t = "null" -> FALSE
    [] v.t = "int" -> v.n # 0
    [] v.t = "float" -> v.tenths # 0
    [] v.t = "str" -> v.s # <<>>
    [] v.t = "bool" -> v.v
    [] v.t = "list" -> v.items # <<>>
    [] v.t = "object" -> DOMAIN v.fields # {}

\* int(v): floats truncate toward zero, strings are parsed, containers raise
int(v) ==
  CASE v.t = "int" -> Ok(v.n)
    [] v.t = "bool" -> Ok(IF v.v THEN 1 ELSE 0)
    [] v.t = "float" ->
         Ok(IF v.tenths < 0 THEN -((-v.tenths) \div 10) ELSE v.tenths \div 10)
    [] v.t = "str" -> int_of_str(v.s)
    [] OTHER -> Raise("TypeError")

\* int(v or 0)
int_or_zero(v) == IF truthy(v) THEN int(v) ELSE Ok(0)

\* str(v); containers are rendered by their brackets only
str(v) ==
  CASE v.t = "str" -> v.s
    [] v.t = "null" -> <<"N", "o", "n", "e">>
    [] v.t = "bool" -> IF v.v THEN <<"T", "r", "u", "e">>
                       ELSE <<"F", "a", "l", "s", "e">>
    [] v.t = "int" -> IntToStr(v.n)
    [] v.t = "float" ->
         (IF v.tenths < 0 THEN <<"-">> ELSE <<>>)
           \o NatToStr((IF v.tenths < 0 THEN -v.tenths ELSE v.tenths) \div 10)
           \o <<".">>
           \o NatToStr((IF v.tenths < 0 THEN -v.tenths ELSE v.tenths) % 10)
    [] v.t = "list" -> <<"[", "]">>
    [] v.t = "object" -> <<"{", "}">>

\* s.startswith("y")
startswith_y(s) == s # <<>> /\ s[1] = "y"

\* data.get(key): the default is forgotten
get_without_default(data, key, default) ==
  IF key \in DOMAIN data.fields THEN data.fields[key] ELSE None

\* data.get(key, default) on a dict
get(data, key, default) ==
  IF key \in DOMAIN data.fields THEN data.fields[key] ELSE default

(***************************************************************************)
(* core/scoring.py: the heuristic fallback.                                *)
(***************************************************************************)
\* int(round(num / den * 100)) is called with 100 * num here: Python rounds
\* an exact half to the even neighbour
\* truncation instead of rounding
round_down(num, den) == num \div den

round(num, den) ==
  LET q == num \div den
      twice == 2 * (num % den)
  IN  IF twice > den THEN q + 1
      ELSE IF twice < den THEN q
      ELSE IF q % 2 = 0 THEN q ELSE q + 1

\* list(S) for a set of strings: the iteration order of a set follows the
\* string hashes, which are salted per process; the seed rotates the order
list_of_set(S, seed) ==
  LET base == sorted(S)
      n == Len(base)
  IN  [i \in 1..n |-> base[((i - 1 + (seed - 1)) % n) + 1]]

EXPERIENCED_IN == <<"E", "x", "p", "e", "r", "i", "e", "n", "c", "e", "d", " ", "i", "n", " ">>

MISSING_OR_WEAK_IN == <<"M", "i", "s", "s", "i", "n", "g", " ", "o", "r", " ", "w", "e", "a", "k", " ", "i", "n", " ">>

SUMMARY_MID == <<" ", "t", "e", "c", "h", "n", "i", "c", "a", "l", " ", "s", "k", "i", "l", "l", "s", " ", "i", "d", "e", "n", "t", "i", "f", "i", "e", "d", ";", " ", "k", "e", "y", ":", " ">>

_heuristic_score(resume, jd, seed) ==
  LET skills == skills_in(resume)
      jd_skills == skills_in(jd)
      overlap == SelectSeq(skills, LAMBDA s : s \in Range(jd_skills))
      score == IF jd_skills # <<>>
                 THEN round(Len(overlap) * 100, Max(1, Len(jd_skills)))
                 ELSE Min(100, Len(skills) * 10)
      ai_summary == IntToStr(Len(skills)) \o SUMMARY_MID
                      \o join(Comma, Take(skills, 6)) \o <<".">>
      top == IF Take(overlap, 3) # <<>> THEN Take(overlap, 3) ELSE Take(skills, 3)
      strengths == [i \in 1..Len(top) |-> PyStr(EXPERIENCED_IN \o top[i])]
      gaps_base == Take(list_of_set(Range(jd_skills) \ Range(skills), seed), 3)
      weaknesses == [i \in 1..Len(gaps_base) |->
                       PyStr(MISSING_OR_WEAK_IN \o gaps_base[i])]
      best_fit == IF score >= 70 THEN "Yes" ELSE "No"
  IN  [ai_summary |-> ai_summary,
       strengths |-> strengths,
       weaknesses |-> weaknesses,
       ai_fit_score |-> score,
       best_fit |-> best_fit]

(***************************************************************************)
(* core/scoring.py: the audit log, the client and the primary path.        *)
(***************************************************************************)
NoClient == "None"

\* the append without its try/except
_log_audit_unguarded(log, entry, writable) ==
  [log |-> IF writable THEN Append(log, entry) ELSE log, raised |-> ~writable]

\* one append to the audit file; writable says whether open/write succeed.
\* Any exception is swallowed, so the caller never sees raised = TRUE.
_log_audit(log, entry, writable) ==
  [log |-> IF writable THEN Append(log, entry) ELSE log, raised |-> FALSE]

\* the lazily built module-level client; building it fails without credentials
_client_instance(cl, svc) ==
  IF cl # NoClient THEN Ok(cl)
  ELSE IF svc.kind = "no_client" THEN Raise("OpenAIError")
  ELSE Ok("OpenAI")

\* client.chat.completions.create(...) followed by resp.choices[0].message.content
create(svc) ==
  CASE svc.kind = "error" -> Raise("APIConnectionError")
    [] svc.kind = "no_choices" -> Raise("IndexError")
    [] OTHER -> Ok(svc.content)

\* content or "{}"
content_or_empty_object(content) ==
  IF content.c \in {"none", "empty"}
    THEN [c |-> "json", value |-> PyDict(<<>>)]
    ELSE content

\* a parser that answers {} for a body that is not JSON
json_loads_lenient(content) ==
  IF content.c = "json" THEN Ok(content.value) ELSE Ok(PyDict(<<>>))

json_loads(content) ==
  IF content.c = "json" THEN Ok(content.value) ELSE Raise("JSONDecodeError")

\* the strengths / weaknesses coercion: a list is kept, None gives [],
\* anything else is wrapped
as_list(v) ==
  IF v.t = "list" THEN v.items
  ELSE IF v.t # "null" THEN <<v>>
  ELSE <<>>

\* the verdict taken from the response as it is
coerce_trusting_verdict(data) ==
  IF data.t # "object" THEN Raise("AttributeError")
  ELSE LET score == int_or_zero(get(data, "ai_fit_score", None))
       IN  IF ~score.ok THEN score
           ELSE Ok([ai_summary |-> strip(str(get(data, "ai_summary", PyStr(<<>>)))),
                    strengths |-> as_list(get(data, "strengths", None)),
                    weaknesses |-> as_list(get(data, "weaknesses", None)),
                    ai_fit_score |-> score.v,
                    best_fit |->
                      IF startswith_y(lower(strip(str(get(data, "best_fit", PyStr(<<>>))))))
                        THEN "Yes" ELSE "No"])

\* the dict literal built from the parsed response
coerce(data) ==
  IF data.t # "object" THEN Raise("AttributeError")
  ELSE LET score == int_or_zero(get(data, "ai_fit_score", None))
       IN  IF ~score.ok THEN score
           ELSE Ok([ai_summary |-> strip(str(get(data, "ai_summary", PyStr(<<>>)))),
                    strengths |-> as_list(get(data, "strengths", None)),
                    weaknesses |-> as_list(get(data, "weaknesses", None)),
                    ai_fit_score |-> score.v,
                    best_fit |->
                      IF \/ startswith_y(lower(strip(str(get(data, "best_fit", PyStr(<<>>))))))
                         \/ score.v >= 70
                        THEN "Yes" ELSE "No"])

\* the body of the try block.  w[i] tells whether the i-th audit append of
\* this invocation finds the file writable.
try_block(svc, cl, log, w) ==
  LET inst == _client_instance(cl, svc)
      failed(c, n, l, a) ==
        [exc |-> TRUE, client |-> c, requests |-> n, log |-> l, appends |-> a, out |-> None]
  IN  IF ~inst.ok THEN failed(cl, 0, log, <<>>)
      ELSE LET resp == create(svc)
           IN  IF ~resp.ok THEN failed(inst.v, 1, log, <<>>)
               ELSE LET content == content_or_empty_object(resp.v)
                        lg == _log_audit(log, "response", w[1])
                    IN  IF lg.raised THEN failed(inst.v, 1, lg.log, <<w[1]>>)
                        ELSE LET data == json_loads(content)
                                 out == IF data.ok THEN coerce(data.v) ELSE data
                             IN  IF ~out.ok THEN failed(inst.v, 1, lg.log, <<w[1]>>)
                                 ELSE [exc |-> FALSE, client |-> inst.v, requests |-> 1,
                                       log |-> lg.log, appends |-> <<w[1]>>, out |-> out.v]

\* an except handler that falls back without logging the error
score_resume_with_llm_run_unlogged(resume, jd, svc, cl, log, seed, w) ==
  LET t == try_block(svc, cl, log, w)
  IN  IF ~t.exc
        THEN [path |-> "primary", raised |-> FALSE, out |-> t.out, client |-> t.client,
              requests |-> t.requests, log |-> t.log, appends |-> t.appends]
        ELSE [path |-> "fallback", raised |-> FALSE,
              out |-> _heuristic_score(resume, jd, seed),
              client |-> t.client, requests |-> t.requests,
              log |-> t.log, appends |-> t.appends]

\* the whole function: try block, and the except handler that logs the error
\* and falls back to the heuristic
score_resume_with_llm_run(resume, jd, svc, cl, log, seed, w) ==
  LET t == try_block(svc, cl, log, w)
  IN  IF ~t.exc
        THEN [path |-> "primary", raised |-> FALSE, out |-> t.out, client |-> t.client,
              requests |-> t.requests, log |-> t.log, appends |-> t.appends]
        ELSE LET k == Len(t.appends) + 1
                 lg == _log_audit(t.log, "error", w[k])
             IN  IF lg.raised
                   THEN [path |-> "raised", raised |-> TRUE, out |-> None,
                         client |-> t.client, requests |-> t.requests,
                         log |-> lg.log, appends |-> Append(t.appends, w[k])]
                   ELSE [path |-> "fallback", raised |-> FALSE,
                         out |-> _heuristic_score(resume, jd, seed),
                         client |-> t.client, requests |-> t.requests,
                         log |-> lg.log, appends |-> Append(t.appends, w[k])]

(***************************************************************************)
(* core/parsing.py: file -> text.                                          *)
(***************************************************************************)
\* positions of c in s
Positions(s, c) == {i \in 1..Len(s) : s[i] = c}

SetMax(S) == CHOOSE x \in S : \A y \in S : y <= x

\* Path(filename).name: the last component of the path
path_name(f) ==
  IF Positions(f, "/") = {} THEN f
  ELSE SubSeq(f, SetMax(Positions(f, "/")) + 1, Len(f))

\* Path(filename).suffix: from the last dot of the name, unless that dot
\* opens or closes the name
path_suffix(f) ==
  LET name == path_name(f)
      i == IF Positions(name, ".") = {} THEN 0 ELSE SetMax(Positions(name, "."))
  IN  IF 1 < i /\ i < Len(name) THEN SubSeq(name, i, Len(name)) ELSE <<>>

DOT_PDF == <<".", "p", "d", "f">>

DOT_DOCX == <<".", "d", "o", "c", "x">>

DOT_DOC == <<".", "d", "o", "c">>

NEWLINE == <<"\n">>

\* the bytes the uploads are made of: "A", the two bytes of U+00E9, and a
\* byte that cannot occur in UTF-8
ByteAlphabet == {65, 195, 169, 255}

IsAscii(x) == x < 128

\* the first byte of a two-byte sequence
IsLead2(x) == 194 <= x /\ x <= 223

IsContinuation(x) == 128 <= x /\ x <= 191

\* chr() for the code points the alphabet can spell
chr(cp) ==
  CASE cp = 65 -> "A"
    [] cp = 233 -> "U+00E9"

\* a decoder that gives up on the first malformed byte
RECURSIVE decode_utf8_strict(_)
decode_utf8_strict(bytes) ==
  IF bytes = <<>> THEN Ok(<<>>)
  ELSE IF IsAscii(bytes[1])
    THEN LET rest == decode_utf8_strict(Tail(bytes))
         IN  IF rest.ok THEN Ok(<<chr(bytes[1])>> \o rest.v) ELSE rest
  ELSE IF IsLead2(bytes[1]) /\ Len(bytes) >= 2 /\ IsContinuation(bytes[2])
    THEN LET rest == decode_utf8_strict(Tail(Tail(bytes)))
         IN  IF rest.ok
               THEN Ok(<<chr((bytes[1] - 192) * 64 + (bytes[2] - 128))>> \o rest.v)
               ELSE rest
  ELSE Raise("UnicodeDecodeError")

\* b.decode("utf-8", errors="ignore") for one- and two-byte sequences: a byte
\* that does not start a well-formed sequence is dropped and decoding goes on
\* with the next byte
RECURSIVE decode_utf8_ignore(_)
decode_utf8_ignore(bytes) ==
  IF bytes = <<>> THEN Ok(<<>>)
  ELSE IF IsAscii(bytes[1])
    THEN Ok(<<chr(bytes[1])>> \o decode_utf8_ignore(Tail(bytes)).v)
  ELSE IF IsLead2(bytes[1]) /\ Len(bytes) >= 2 /\ IsContinuation(bytes[2])
    THEN Ok(<<chr((bytes[1] - 192) * 64 + (bytes[2] - 128))>>
              \o decode_utf8_ignore(Tail(Tail(bytes))).v)
  ELSE decode_utf8_ignore(Tail(bytes))

\* p.extract_text() or ""; Raise when the page's extraction raises
page_text(page) ==
  CASE page.r = "raise" -> Raise("PdfReadError")
    [] page.r = "none" -> Ok(<<>>)
    [] page.r = "text" -> Ok(page.text)

\* PdfReader(...) and the join over its pages, inside one try/except: an
\* exception from the reader or from any page gives ""
extract_text_from_pdf_bytes(doc) ==
  IF ~doc.ok THEN <<>>
  ELSE IF \E i \in 1..Len(doc.pages) : ~page_text(doc.pages[i]).ok THEN <<>>
  ELSE join(NEWLINE, [i \in 1..Len(doc.pages) |-> page_text(doc.pages[i]).v])

extract_text_from_docx_bytes(doc) ==
  IF ~doc.ok THEN <<>>
  ELSE join(NEWLINE, doc.paragraphs)

\* the dispatch on the suffix; the result is the text, raised tells whether
\* an exception left the function
extract_text_from_bytes_run(f, bytes, pdfdoc, docxdoc) ==
  LET suffix == lower(path_suffix(f))
  IN  IF suffix = DOT_PDF
        THEN [raised |-> FALSE, text |-> extract_text_from_pdf_bytes(pdfdoc)]
      ELSE IF suffix \in {DOT_DOCX, DOT_DOC}
        THEN [raised |-> FALSE, text |-> extract_text_from_docx_bytes(docxdoc)]
      ELSE LET d == decode_utf8_ignore(bytes)
           IN  IF d.ok THEN [raised |-> FALSE, text |-> d.v]
               ELSE [raised |-> FALSE, text |-> <<>>]

NotExtracted == [done |-> FALSE]

Filenames ==
  {<<"c", "v", ".", "p", "d", "f">>, <<"C", "V", ".", "P", "D", "F">>, <<"c", "v", ".", "d", "o", "c", "x">>, <<"c", "v", ".", "d", "o", "c">>,
   <<"c", "v", ".", "t", "x", "t">>, <<"c", "v">>, <<".", "p", "d", "f">>,
   <<"c", "v", ".", "p", "d", "f", ".", "t", "x", "t">>, <<"u", "p", ".", "p", "d", "f", "/", "c", "v">>}

ByteSeqs(n) == UNION {[1..k -> ByteAlphabet] : k \in 0..n}

PageOutcomes ==
  {[r |-> "text", text |-> <<"H", "i">>], [r |-> "text", text |-> <<>>],
   [r |-> "none"], [r |-> "raise"]}

PdfViews ==
  {[ok |-> FALSE]}
    \cup {[ok |-> TRUE, pages |-> ps] : ps \in UNION {[1..k -> PageOutcomes] : k \in 0..MaxPages}}

DocxViews ==
  {[ok |-> FALSE], [ok |-> TRUE, paragraphs |-> <<>>],
   [ok |-> TRUE, paragraphs |-> <<<<"P">>, <<>>, <<"Q">>>>]}

\* an upload waits to be read; the scoring engine is not involved
InitExtract ==
  /\ filename \in Filenames
  /\ b \in ByteSeqs(MaxBytes)
  /\ pdf \in PdfViews
  /\ docx \in DocxViews
  /\ extracted = NotExtracted
  /\ resume_text = <<>>
  /\ jd_text = <<>>
  /\ service = [kind |-> "error"]
  /\ hashSeed = 1
  /\ _client = NoClient
  /\ audit = <<>>
  /\ calls = <<>>
  /\ pending = 0
  /\ cv = <<>>
  /\ cv_emails = <<>>
  /\ vocabulary = [given |-> FALSE]
  /\ clock = [y |-> 0, m |-> 1]
  /\ dateparser = "strict"
  /\ parsed = [done |-> FALSE]

extract_text_from_bytes ==
  /\ ~extracted.done
  /\ \E r \in {extract_text_from_bytes_run(filename, b, pdf, docx)} :
       extracted' = [done |-> TRUE, raised |-> r.raised, text |-> r.text]
  /\ UNCHANGED <<filename, b, pdf, docx>>
  /\ UNCHANGED scoringVars
  /\ UNCHANGED parsingVars

NextExtract == extract_text_from_bytes

SpecExtract == InitExtract /\ [][NextExtract]_vars

(***************************************************************************)
(* What the inference service may do with a request.                       *)
(***************************************************************************)
\* either no entry for key k, or one of the values
Opt(k, values) == {<<>>} \cup {k :> v : v \in values}

ScoreChoices ==
  {PyInt(40), PyInt(69), PyInt(70), PyInt(150), PyInt(-5),
   PyFloat(699), PyFloat(705),
   PyStr(<<"8", "5">>), PyStr(<<"a", "b", "c">>),
   PyBool(TRUE), PyList(<<PyInt(1)>>), None}

BestFitChoices ==
  {PyStr(<<"Y", "e", "s">>), PyStr(<<"N", "o">>), PyStr(<<" ", "y", "e", "s", " ">>),
   PyBool(TRUE), None}

GoodSummary == PyStr(<<" ", "G", "o", "o", "d", " ", "f", "i", "t", ".", " ">>)

GoodList == PyList(<<PyStr(<<"c", "l", "o", "u", "d">>)>>)

\* objects that vary the score and the verdict
VerdictObjects ==
  {s @@ bf @@ [ai_summary |-> GoodSummary, strengths |-> GoodList, weaknesses |-> GoodList] :
     s \in Opt("ai_fit_score", ScoreChoices), bf \in Opt("best_fit", BestFitChoices)}

\* objects that vary the summary and the two lists
ShapeObjects ==
  {sm @@ st @@ wk @@ [ai_fit_score |-> PyInt(85), best_fit |-> PyStr(<<"N", "o">>)] :
     sm \in Opt("ai_summary", {GoodSummary, None}),
     st \in Opt("strengths", {GoodList, PyStr(<<"c", "l", "o", "u", "d">>), None}),
     wk \in Opt("weaknesses", {GoodList})}

JsonValues ==
  {PyDict(f) : f \in VerdictObjects \cup ShapeObjects}
    \cup {PyList(<<PyInt(1)>>), None, PyInt(85), PyStr(<<"o", "k">>)}

Contents ==
  {[c |-> "none"], [c |-> "empty"], [c |-> "text"]}
    \cup {[c |-> "json", value |-> v] : v \in JsonValues}

Unavailable == {[kind |-> "no_client"], [kind |-> "error"], [kind |-> "no_choices"]}

ServiceBehaviours ==
  Unavailable \cup {[kind |-> "response", content |-> c] : c \in Contents}

(***************************************************************************)
(* The state machine.                                                      *)
(***************************************************************************)
Seeds == 1..NumSeeds

Fresh ==
  /\ hashSeed \in Seeds
  /\ _client = NoClient
  /\ audit = <<>>
  /\ calls = <<>>

\* no upload is being read
NoUpload ==
  /\ filename = <<>>
  /\ b = <<>>
  /\ pdf = [ok |-> FALSE]
  /\ docx = [ok |-> FALSE]
  /\ extracted = NotExtracted

\* no field extractor is being applied
NotParsed == [done |-> FALSE]

NoVocabulary == [given |-> FALSE]

NoParse ==
  /\ cv = <<>>
  /\ cv_emails = <<>>
  /\ vocabulary = NoVocabulary
  /\ clock = [y |-> 0, m |-> 1]
  /\ dateparser = "strict"
  /\ parsed = NotParsed

\* one invocation, every service behaviour, short texts
Init ==
  /\ resume_text \in Texts(PrimaryFrags)
  /\ jd_text \in Texts(PrimaryFrags)
  /\ service \in ServiceBehaviours
  /\ pending = 1
  /\ Fresh
  /\ NoUpload
  /\ NoParse

\* one invocation, the inference service out of reach, long texts
InitFallback ==
  /\ resume_text \in Texts(MaxFrags)
  /\ jd_text \in Texts(MaxFrags)
  /\ service = [kind |-> "error"]
  /\ pending = 1
  /\ Fresh
  /\ NoUpload
  /\ NoParse

\* the service behaviours a caller meets when it repeats an invocation
RepeatBehaviours ==
  {[kind |-> "error"], [kind |-> "no_client"],
   [kind |-> "response", content |-> [c |-> "text"]],
   [kind |-> "response", content |-> [c |-> "empty"]],
   [kind |-> "response", content |->
      [c |-> "json", value |-> PyDict([ai_fit_score |-> PyInt(85), best_fit |-> PyStr(<<"N", "o">>)])]]}

\* the caller repeats the invocation on the same texts, possibly across
\* restarts of the process
InitRepeat ==
  /\ resume_text \in Texts(PrimaryFrags)
  /\ jd_text \in Texts(PrimaryFrags)
  /\ service \in RepeatBehaviours
  /\ pending = MaxCalls
  /\ Fresh
  /\ NoUpload
  /\ NoParse

\* one invocation, from the call to the return (or the exception)
score_resume_with_llm ==
  /\ pending > 0
  /\ pending' = pending - 1
  /\ \E w \in [1..2 -> BOOLEAN] :
       \E r \in {score_resume_with_llm_run(resume_text, jd_text, service, _client,
                                           audit, hashSeed, w)} :
           /\ \A i \in (Len(r.appends) + 1)..2 : w[i]
           /\ _client' = r.client
           /\ audit' = r.log
           /\ calls' = Append(calls,
                [seed |-> hashSeed, appends |-> r.appends, path |-> r.path,
                 raised |-> r.raised, out |-> r.out, requests |-> r.requests,
                 lines |-> Len(r.log) - Len(audit)])
  /\ UNCHANGED <<resume_text, jd_text, service, hashSeed>>
  /\ UNCHANGED extractionVars
  /\ UNCHANGED parsingVars

\* the module is loaded by a new process: the client is unset, the hash seed
\* is drawn again; the audit file stays
ProcessStart ==
  /\ _client' = NoClient
  /\ hashSeed' \in Seeds
  /\ UNCHANGED <<resume_text, jd_text, service, audit, calls, pending>>
  /\ UNCHANGED extractionVars
  /\ UNCHANGED parsingVars

Next == score_resume_with_llm \/ ProcessStart

Spec == Init /\ [][Next]_vars

SpecFallback == InitFallback /\ [][Next]_vars

SpecRepeat == InitRepeat /\ [][Next]_vars

(***************************************************************************)
(* Vocabulary of the properties: what the service answered, read off the   *)
(* raw response and not off the engine's result.                           *)
(***************************************************************************)
Calls == {calls[i] : i \in 1..Len(calls)}

Returned == {c \in Calls : ~c.raised}

AllWritable(c) == \A k \in 1..Len(c.appends) : c.appends[k]

ResponseReceived == service.kind = "response"

\* the response carries a JSON object (an absent or empty body counts as {})
IsObject ==
  /\ ResponseReceived
  /\ \/ service.content.c \in {"none", "empty"}
     \/ service.content.c = "json" /\ service.content.value.t = "object"

RawFields ==
  IF service.content.c = "json" THEN service.content.value.fields ELSE <<>>

Has(key) == IsObject /\ key \in DOMAIN RawFields

\* an integer literal: optional sign, then digits only
LooksInteger(s) ==
  LET u == strip(s)
      d == IF u # <<>> /\ u[1] \in {"+", "-"} THEN Tail(u) ELSE u
  IN  d # <<>> /\ \A i \in 1..Len(d) : d[i] \in Range(Digits)

\* the response's score is there and has no integer reading
ScoreUnconvertible ==
  /\ Has("ai_fit_score")
  /\ LET v == RawFields["ai_fit_score"]
     IN  \/ v.t = "str" /\ v.s # <<>> /\ ~LooksInteger(v.s)
         \/ v.t = "list" /\ v.items # <<>>
         \/ v.t = "object" /\ DOMAIN v.fields # {}

\* the request fails, or its answer cannot be parsed or coerced
PrimaryFails ==
  \/ ~ResponseReceived
  \/ ~IsObject
  \/ ScoreUnconvertible

\* the raw verdict is a string that reads "y..." once trimmed and lowercased
Affirms ==
  /\ Has("best_fit")
  /\ RawFields["best_fit"].t = "str"
  /\ LET u == strip(RawFields["best_fit"].s) IN u # <<>> /\ u[1] \in {"y", "Y"}

RawSaysNo ==
  /\ Has("best_fit")
  /\ RawFields["best_fit"] = PyStr(<<"N", "o">>)

RequiredKeys == {"ai_summary", "strengths", "weaknesses", "ai_fit_score", "best_fit"}

MissingKey == IsObject /\ \E k \in RequiredKeys : ~Has(k)

(***************************************************************************)
(* C1: every returned result has best_fit "Yes" whenever its score is at   *)
(* least 70; on the primary path best_fit is "Yes" exactly when the raw    *)
(* response affirms fit or the coerced score is at least 70.               *)
(***************************************************************************)
BestFitRule ==
  \A c \in Returned :
    /\ c.out.best_fit \in {"Yes", "No"}
    /\ c.out.ai_fit_score >= 70 => c.out.best_fit = "Yes"
    /\ c.path = "primary" =>
         (c.out.best_fit = "Yes" <=> (Affirms \/ c.out.ai_fit_score >= 70))

\* a primary result of 70 or more whose raw response said "No"
BestFitOverridesNo ==
  \E c \in Returned :
    c.path = "primary" /\ RawSaysNo /\ c.out.ai_fit_score >= 70 /\ c.out.best_fit = "Yes"

(***************************************************************************)
(* C2: when the request fails or its answer cannot be parsed or coerced,   *)
(* at most one request was issued, nothing is raised, and the result is    *)
(* the heuristic's for the same two texts.                                 *)
(***************************************************************************)
FailureFallsBack ==
  \A c \in Calls :
    PrimaryFails =>
      /\ c.requests <= 1
      /\ ~c.raised
      /\ c.path = "fallback"
      /\ c.out = _heuristic_score(resume_text, jd_text, c.seed)

\* a fallback after a body that is not JSON, and one after a failed request
FellBackAfterBadBody ==
  \E c \in Calls :
    /\ ResponseReceived /\ service.content.c = "text"
    /\ c.path = "fallback" /\ c.requests = 1

(***************************************************************************)
(* C3: every returned score is an integer between 0 and 100.               *)
(***************************************************************************)
ScoreInRange == \A c \in Returned : c.out.ai_fit_score \in 0..100

(***************************************************************************)
(* C4: with the service out of reach, two invocations on the same texts    *)
(* return the same assessment.                                             *)
(***************************************************************************)
FallbackDeterministic ==
  \A c, d \in Returned :
    (c.path = "fallback" /\ d.path = "fallback") => c.out = d.out

AuditFailureHarmless ==
  /\ \A c \in Calls : ~c.raised
  /\ \A c, d \in Calls :
       c.seed = d.seed => (c.path = d.path /\ c.out = d.out)

\* two invocations in the same process, one with a failed append, one without
AuditFailedAndNot ==
  \E c, d \in Calls :
    /\ c.seed = d.seed
    /\ \E k \in 1..Len(c.appends) : ~c.appends[k]
    /\ AllWritable(d)
    /\ c.out = d.out

(***************************************************************************)
(* C7: a JSON object that lacks a required key sends the engine to the     *)
(* heuristic fallback.                                                     *)
(***************************************************************************)
MissingKeyFallsBack ==
  \A c \in Calls :
    MissingKey =>
      (c.path = "fallback" /\ c.out = _heuristic_score(resume_text, jd_text, c.seed))

\* C7 as amended: a missing key is filled with its default on the primary
\* path; only a value that cannot be coerced sends the engine to the fallback
MissingKeyDefaults ==
  \A c \in Calls :
    (MissingKey /\ ~ScoreUnconvertible) =>
      /\ c.path = "primary"
      /\ ~Has("ai_summary") => c.out.ai_summary = <<>>
      /\ ~Has("strengths") => c.out.strengths = <<>>
      /\ ~Has("weaknesses") => c.out.weaknesses = <<>>
      /\ ~Has("ai_fit_score") => c.out.ai_fit_score = 0
      /\ ~Has("best_fit") => (c.out.best_fit = "Yes" <=> c.out.ai_fit_score >= 70)

MissingScoreDefaulted ==
  \E c \in Calls :
    /\ IsObject /\ ~Has("ai_fit_score") /\ Has("best_fit")
    /\ c.path = "primary" /\ c.out.ai_fit_score = 0

Suffix == lower(path_suffix(filename))

PdfSelected == Suffix = DOT_PDF

DocxSelected == Suffix \in {DOT_DOCX, DOT_DOC}

TextSelected == ~PdfSelected /\ ~DocxSelected

\* positions of b where a well-formed UTF-8 sequence starts
SequenceStarts ==
  {i \in 1..Len(b) :
     \/ IsAscii(b[i])
     \/ /\ IsLead2(b[i]) /\ i < Len(b) /\ IsContinuation(b[i + 1])}

\* positions of b that belong to a well-formed sequence
WellFormedPositions ==
  SequenceStarts \cup {i \in 2..Len(b) : (i - 1) \in SequenceStarts /\ ~IsAscii(b[i - 1])}

ValidUtf8 == WellFormedPositions = 1..Len(b)

\* the characters spelled by the well-formed sequences of b, in order
RECURSIVE CharsFrom(_)
CharsFrom(S) ==
  IF S = {} THEN <<>>
  ELSE LET i == CHOOSE x \in S : \A y \in S : x <= y
           c == IF IsAscii(b[i]) THEN chr(b[i])
                ELSE chr((b[i] - 192) * 64 + (b[i + 1] - 128))
       IN  <<c>> \o CharsFrom(S \ {i})

\* the bytes are not what the selected decoder reads
InvalidForDecoder ==
  \/ PdfSelected /\ ~pdf.ok
  \/ DocxSelected /\ ~docx.ok
  \/ TextSelected /\ ~ValidUtf8

(***************************************************************************)
(* C9: extract_text_from_bytes never raises, and returns "" for bytes the  *)
(* selected decoder cannot read.                                           *)
(***************************************************************************)
EmptyOnInvalidBytes ==
  extracted.done =>
    /\ ~extracted.raised
    /\ InvalidForDecoder => extracted.text = <<>>

\* C9 as amended: never raises; "" for bytes that are not a PDF or not a
\* document when that decoder is selected; for any other suffix the
\* characters of the well-formed UTF-8 sequences, malformed bytes dropped
PermissiveOnText ==
  extracted.done =>
    /\ ~extracted.raised
    /\ (PdfSelected /\ ~pdf.ok) => extracted.text = <<>>
    /\ (DocxSelected /\ ~docx.ok) => extracted.text = <<>>
    /\ TextSelected => extracted.text = CharsFrom(SequenceStarts)

\* malformed bytes under a text suffix, and text comes back
MalformedBytesDropped ==
  /\ extracted.done
  /\ TextSelected /\ ~ValidUtf8
  /\ extracted.text # <<>>

(***************************************************************************)
(* C10: in a readable PDF a page that yields nothing or raises counts as   *)
(* an empty string, and the other pages' text is returned in page order.   *)
(***************************************************************************)
PageFailureIsLocal ==
  (extracted.done /\ PdfSelected /\ pdf.ok) =>
    extracted.text =
      join(NEWLINE, [i \in 1..Len(pdf.pages) |->
                       IF pdf.pages[i].r = "text" THEN pdf.pages[i].text ELSE <<>>])

(***************************************************************************)
(* re: the character classes and the scanning that the patterns of         *)
(* parsing.py need.  Positions are 1-based; a match ends at the position   *)
(* after its last character, and 0 stands for "no match".                  *)
(***************************************************************************)
\* F applied to the value of v, which is computed once
Bind(v, F(_)) == CHOOSE r \in {F(x) : x \in {v}} : TRUE

SetMin(S) == CHOOSE x \in S : \A y \in S : x <= y

\* what finditer and findall keep of the matches found at the positions of a
\* text (pairs <<start, end>>): the leftmost one from pos on, then the
\* leftmost one from its end on, and so forth
RECURSIVE leftmost_from(_, _)
leftmost_from(hits, pos) ==
  Bind({h \in hits : h[1] >= pos}, LAMBDA ahead :
    IF ahead = {} THEN <<>>
    ELSE Bind(CHOOSE h \in ahead : \A g \in ahead : h[1] <= g[1], LAMBDA m :
           <<m>> \o leftmost_from(ahead, m[2])))

Letters == Range(UpperLetters) \cup Range(LowerLetters)

DigitChars == Range(Digits)

\* \w
WordChars == Letters \cup DigitChars \cup {"_"}

\* \s* from position i: the first position that holds no white space
RECURSIVE skip_space(_, _)
skip_space(t, i) ==
  IF i <= Len(t) /\ IsSpace(t[i]) THEN skip_space(t, i + 1) ELSE i

\* \d{4} at position i
four_digits(t, i) ==
  i + 3 <= Len(t) /\ \A k \in i..(i + 3) : t[k] \in DigitChars

\* a literal (given in lower case) at position i under re.I
literal_at(t, i, lit) ==
  /\ i + Len(lit) - 1 <= Len(t)
  /\ \A k \in 1..Len(lit) : lowerChar(t[i + k - 1]) = lit[k]

\* the length of the run of \w characters that starts at position i
RECURSIVE word_run(_, _)
word_run(t, i) ==
  IF i <= Len(t) /\ t[i] \in WordChars THEN 1 + word_run(t, i + 1) ELSE 0

\* the run of digits that starts at position i
RECURSIVE digit_run(_, _)
digit_run(t, i) ==
  IF i <= Len(t) /\ t[i] \in DigitChars THEN 1 + digit_run(t, i + 1) ELSE 0

\* the elements of a sequence of positions that are matches
RECURSIVE matched(_)
matched(ends) ==
  IF ends = <<>> THEN <<>>
  ELSE IF ends[1] = 0 THEN matched(Tail(ends))
  ELSE <<ends[1]>> \o matched(Tail(ends))

(***************************************************************************)
(* DATE_RANGE_RE (parsing.py:53-58), matched as re's backtracking matcher  *)
(* does: alternatives in the order written, quantifiers greedy.            *)
(***************************************************************************)
MONTHS ==
  << <<"j", "a", "n">>, <<"f", "e", "b">>, <<"m", "a", "r">>, <<"a", "p", "r">>, <<"m", "a", "y">>, <<"j", "u", "n">>,
     <<"j", "u", "l">>, <<"a", "u", "g">>, <<"s", "e", "p">>, <<"o", "c", "t">>, <<"n", "o", "v">>, <<"d", "e", "c">> >>

PRESENT == <<"p", "r", "e", "s", "e", "n", "t">>

CURRENT == <<"c", "u", "r", "r", "e", "n", "t">>

NOW == <<"n", "o", "w">>

TO == <<"t", "o">>

\* the dashes of the separator: hyphen, em dash, en dash (a character outside
\* ASCII is written as its code point)
DASHES == {"-", "U+2014", "U+2013"}

\* [\.]?\s*\d{4} from position h: where it ends
year_after(t, h) ==
  LET d == IF h <= Len(t) /\ t[h] = "." THEN h + 1 ELSE h
      p == skip_space(t, d)
  IN  IF four_digits(t, p) THEN p + 4 ELSE 0

\* the lengths (?:Jan|...|Dec|\w{3,9}|\d{4}) can take at position i, in the
\* order the matcher tries them
heads(t, i) ==
  LET longest == Min(word_run(t, i), 9)
      month == IF \E k \in 1..12 : literal_at(t, i, MONTHS[k]) THEN <<3>> ELSE <<>>
      word == IF longest < 3 THEN <<>>
              ELSE [k \in 1..(longest - 2) |-> longest + 1 - k]
      year == IF four_digits(t, i) THEN <<4>> ELSE <<>>
  IN  month \o word \o year

\* the ends the group `from` (and the dated alternatives of `to`) can take
\* at position i, in the order the matcher tries them
date_ends(t, i) ==
  LET hs == heads(t, i)
  IN  matched([k \in 1..Len(hs) |-> year_after(t, i + hs[k])])
        \o (IF four_digits(t, i) THEN <<i + 4>> ELSE <<>>)

\* \s*(?:-|to|em dash|en dash)\s* from position e: where it ends
separator_end(t, e) ==
  LET p == skip_space(t, e)
      q == IF p <= Len(t) /\ t[p] \in DASHES THEN p + 1
           ELSE IF literal_at(t, p, TO) THEN p + 2
           ELSE 0
  IN  IF q = 0 THEN 0 ELSE skip_space(t, q)

\* the group `to` at position r: where it ends
to_end(t, r) ==
  IF literal_at(t, r, PRESENT) THEN r + Len(PRESENT)
  ELSE IF literal_at(t, r, CURRENT) THEN r + Len(CURRENT)
  ELSE IF literal_at(t, r, NOW) THEN r + Len(NOW)
  ELSE LET ends == date_ends(t, r)
       IN  IF ends = <<>> THEN 0 ELSE ends[1]

\* what follows `from` when it ends before position e: the end of the match
rest_end(t, e) ==
  LET r == separator_end(t, e)
  IN  IF r = 0 THEN 0 ELSE to_end(t, r)

\* DATE_RANGE_RE.match at position i: the span of the match and of its groups
date_range_at(t, i) ==
  Bind(date_ends(t, i), LAMBDA ends :
    Bind({k \in 1..Len(ends) : rest_end(t, ends[k]) # 0}, LAMBDA good :
      IF good = {} THEN [start |-> i, from_end |-> 0, to_start |-> 0, end |-> 0]
      ELSE Bind(ends[CHOOSE k \in good : \A j \in good : k <= j], LAMBDA e :
             [start |-> i, from_end |-> e, to_start |-> separator_end(t, e),
              end |-> rest_end(t, e)])))

\* DATE_RANGE_RE.finditer(t)
DATE_RANGE_RE_finditer(t) ==
  Bind({m \in {date_range_at(t, i) : i \in 1..Len(t)} : m.end # 0}, LAMBDA found :
    Bind(leftmost_from({<<m.start, m.end>> : m \in found}, 1), LAMBDA spans :
      [k \in 1..Len(spans) |-> CHOOSE m \in found : m.start = spans[k][1]]))

(***************************************************************************)
(* dateparser.parse and datetime.now (parsing.py:255-261), on the strings  *)
(* DATE_RANGE_RE hands over: an optional word, an optional dot, a year.    *)
(* A date is a year, a month and whether it lies after midnight; the day   *)
(* the library fills in is today's for every date, so it never decides a   *)
(* comparison.                                                             *)
(***************************************************************************)
MONTH_NAMES ==
  << <<"j", "a", "n", "u", "a", "r", "y">>, <<"f", "e", "b", "r", "u", "a", "r", "y">>, <<"m", "a", "r", "c", "h">>, <<"a", "p", "r", "i", "l">>, <<"m", "a", "y">>, <<"j", "u", "n", "e">>,
     <<"j", "u", "l", "y">>, <<"a", "u", "g", "u", "s", "t">>, <<"s", "e", "p", "t", "e", "m", "b", "e", "r">>, <<"o", "c", "t", "o", "b", "e", "r">>, <<"n", "o", "v", "e", "m", "b", "e", "r">>, <<"d", "e", "c", "e", "m", "b", "e", "r">> >>

NoDate == [ok |-> FALSE]

Date(y, m, late) == [ok |-> TRUE, y |-> y, m |-> m, late |-> late]

\* the month a word names (three letters or more of its name), 0 for none
month_of(w) ==
  LET named == {k \in 1..12 : /\ 3 <= Len(w)
                              /\ Len(w) <= Len(MONTH_NAMES[k])
                              /\ \A i \in 1..Len(w) : lowerChar(w[i]) = MONTH_NAMES[k][i]}
  IN  IF named = {} THEN 0 ELSE CHOOSE k \in named : TRUE

\* a missing month is the current one; a word that names no month makes the
\* library give up ("strict") or is passed over ("lenient")
dateparser_parse(s, today, lib) ==
  LET n == Len(s)
      year == DigitsToNat(SubSeq(s, n - 3, n))
  IN  Bind(rstrip(SubSeq(s, 1, n - 4)), LAMBDA stem :
        Bind(IF stem # <<>> /\ stem[Len(stem)] = "."
               THEN SubSeq(stem, 1, Len(stem) - 1) ELSE stem, LAMBDA word :
          Bind(month_of(word), LAMBDA month :
            IF word = <<>> THEN Date(year, today.m, FALSE)
            ELSE IF month # 0 THEN Date(year, month, FALSE)
            ELSE IF lib = "lenient" THEN Date(year, today.m, FALSE)
            ELSE NoDate)))

datetime_now(today) == Date(today.y, today.m, TRUE)

\* end > start on datetime values
later(end, start) ==
  \/ end.y > start.y
  \/ /\ end.y = start.y
     /\ \/ end.m > start.m
        \/ end.m = start.m /\ end.late /\ ~start.late

(***************************************************************************)
(* compute_experience_years (parsing.py:247-274).                          *)
(***************************************************************************)
INTERN == <<"i", "n", "t", "e", "r", "n">>

YEAR == <<"y", "e", "a", "r">>

\* re.search(r"present|current|now", to_raw, re.I)
open_ended(to_raw) ==
  LET low == lower(to_raw)
  IN  StrIn(PRESENT, low) \/ StrIn(CURRENT, low) \/ StrIn(NOW, low)

\* the months one match adds to total_months: the body of the for loop
range_months(t, m, today, lib) ==
  LET seg == lower(SubSeq(t, m.start, m.end - 1))
      to_raw == SubSeq(t, m.to_start, m.end - 1)
  IN  IF StrIn(INTERN, seg) THEN 0
      ELSE Bind(dateparser_parse(SubSeq(t, m.start, m.from_end - 1), today, lib), LAMBDA start :
             Bind(IF open_ended(to_raw) THEN datetime_now(today)
                  ELSE dateparser_parse(to_raw, today, lib), LAMBDA end :
               IF start.ok /\ end.ok /\ later(end, start)
                 THEN (end.y - start.y) * 12 + (end.m - start.m)
               ELSE 0))

\* re.search(r"(\d+)\s+years?", t, re.I): the number of the leftmost match
years_search(t) ==
  LET hits == {i \in 1..Len(t) :
                 /\ t[i] \in DigitChars
                 /\ LET e == i + digit_run(t, i)
                    IN  /\ e <= Len(t)
                        /\ IsSpace(t[e])
                        /\ literal_at(t, skip_space(t, e), YEAR)}
  IN  IF hits = {} THEN [found |-> FALSE, n |-> 0]
      ELSE LET i == CHOOSE h \in hits : \A g \in hits : h <= g
           IN  [found |-> TRUE, n |-> DigitsToNat(SubSeq(t, i, i + digit_run(t, i) - 1))]

\* the months of the first k ranges together
RECURSIVE sum_months(_, _)
sum_months(ranges, k) ==
  IF k = 0 THEN 0 ELSE sum_months(ranges, k - 1) + ranges[k].months

\* the whole function: the ranges it matched with what each added, and the
\* value it returns (a float with one decimal, kept in tenths)
compute_experience_years_run(t, today, lib) ==
  Bind(DATE_RANGE_RE_finditer(t), LAMBDA ms :
    Bind([k \in 1..Len(ms) |->
            [start |-> ms[k].start, from_end |-> ms[k].from_end,
             to_start |-> ms[k].to_start, end |-> ms[k].end,
             months |-> range_months(t, ms[k], today, lib)]], LAMBDA ranges :
      Bind(sum_months(ranges, Len(ranges)), LAMBDA summed :
        Bind(IF summed = 0 THEN years_search(t) ELSE [found |-> FALSE, n |-> 0], LAMBDA ym :
          Bind(IF ym.found THEN ym.n * 12 ELSE summed, LAMBDA total_months :
            [ranges |-> ranges, out |-> PyFloat(round(10 * total_months, 12))])))))

(***************************************************************************)
(* compute_experience_years applied to sample resumes: lines of work       *)
(* history, joined by newlines.                                            *)
(***************************************************************************)
\* lines of a sample resume
MaxRanges == 2

ExperienceLines ==
  << <<"S", "o", "f", "t", "w", "a", "r", "e", " ", "I", "n", "t", "e", "r", "n", ",", " ", "J", "a", "n", " ", "2", "0", "1", "9", " ", "-", " ", "J", "u", "n", " ", "2", "0", "1", "9">>,
     <<"I", "n", "t", "e", "r", "n", " ", "2", "0", "1", "9", " ", "-", " ", "2", "0", "2", "0">>,
     <<"J", "a", "n", " ", "2", "0", "1", "8", " ", "-", " ", "D", "e", "c", " ", "2", "0", "1", "9">>,
     <<"2", "0", "1", "5", " ", "t", "o", " ", "P", "r", "e", "s", "e", "n", "t">>,
     <<"5", " ", "y", "e", "a", "r", "s", " ", "o", "f", " ", "e", "x", "p", "e", "r", "i", "e", "n", "c", "e">>,
     <<"J", "u", "n", " ", "2", "0", "2", "0", " ", "-", " ", "J", "a", "n", " ", "2", "0", "2", "0">>,
     <<"P", "u", "n", "e", " ", "2", "0", "1", "5", " ", "-", " ", "2", "0", "1", "8">>,
     <<"M", "a", "r", ".", " ", "2", "0", "1", "9", " ", "t", "o", " ", "J", "u", "n", " ", "2", "0", "1", "9">> >>

ExperienceTexts ==
  UNION {{join(NEWLINE, [i \in 1..k |-> ExperienceLines[pick[i]]]) :
            pick \in [1..k -> 1..Len(ExperienceLines)]} : k \in 0..MaxRanges}

Clocks == {[y |-> 2026, m |-> 11], [y |-> 2027, m |-> 3]}

DateLibraries == {"strict", "lenient"}

\* the scoring engine is not involved
Idle ==
  /\ resume_text = <<>>
  /\ jd_text = <<>>
  /\ service = [kind |-> "error"]
  /\ hashSeed = 1
  /\ _client = NoClient
  /\ audit = <<>>
  /\ calls = <<>>
  /\ pending = 0

InitExperience ==
  /\ cv \in ExperienceTexts
  /\ clock \in Clocks
  /\ dateparser \in DateLibraries
  /\ cv_emails = <<>>
  /\ vocabulary = NoVocabulary
  /\ parsed = NotParsed
  /\ Idle
  /\ NoUpload

compute_experience_years ==
  /\ ~parsed.done
  /\ \E r \in {compute_experience_years_run(cv, clock, dateparser)} :
       parsed' = [done |-> TRUE, ranges |-> r.ranges, out |-> r.out]
  /\ UNCHANGED <<cv, cv_emails, vocabulary, clock, dateparser>>
  /\ UNCHANGED scoringVars
  /\ UNCHANGED extractionVars

NextExperience == compute_experience_years

SpecExperience == InitExperience /\ [][NextExperience]_vars

(***************************************************************************)
(* Properties of compute_experience_years.                                 *)
(***************************************************************************)
\* the lines of the text a matched range lies on
surrounding(t, r) ==
  LET before == {k \in 1..(r.start - 1) : t[k] = "\n"}
      after == {k \in (r.end - 1)..Len(t) : t[k] = "\n"}
      lo == IF before = {} THEN 1 ELSE SetMax(before) + 1
      hi == IF after = {} THEN Len(t) ELSE SetMin(after) - 1
  IN  SubSeq(t, lo, hi)

MatchedRanges == {parsed.ranges[k] : k \in 1..Len(parsed.ranges)}

\* the range belongs to an internship: "intern" stands on its lines
Internship(r) == StrIn(INTERN, lower(surrounding(cv, r)))

\* "intern" stands in the matched text itself
InternInMatch(r) == StrIn(INTERN, lower(SubSeq(cv, r.start, r.end - 1)))

\* the start and the end of a matched range as the date library reads them
StartOf(r) == dateparser_parse(SubSeq(cv, r.start, r.from_end - 1), clock, dateparser)

EndOf(r) ==
  LET to_raw == SubSeq(cv, r.to_start, r.end - 1)
  IN  IF open_ended(to_raw) THEN datetime_now(clock)
      ELSE dateparser_parse(to_raw, clock, dateparser)

\* the months of a range that parses and ends strictly after it starts
Span(r) ==
  IF StartOf(r).ok /\ EndOf(r).ok /\ later(EndOf(r), StartOf(r))
    THEN (EndOf(r).y - StartOf(r).y) * 12 + (EndOf(r).m - StartOf(r).m)
    ELSE 0

\* the sum of Span over the ranges at positions 1..k that are not excluded
RECURSIVE SpanSum(_, _)
SpanSum(k, excluded) ==
  IF k = 0 THEN 0
  ELSE SpanSum(k - 1, excluded)
         + (IF parsed.ranges[k] \in excluded THEN 0 ELSE Span(parsed.ranges[k]))

\* total_months of the claim for a given set of excluded ranges: the sum,
\* and the "<N> years" mention only when the sum is zero
TotalMonths(excluded) ==
  LET summed == SpanSum(Len(parsed.ranges), excluded)
  IN  IF summed # 0 THEN summed
      ELSE IF years_search(cv).found THEN 12 * years_search(cv).n
      ELSE 0

\* C11: a matched date range whose surrounding text contains "intern" (in
\* any letter case) contributes zero months to the total.
InternshipsNeverCount ==
  parsed.done =>
    \A r \in MatchedRanges : Internship(r) => r.months = 0

\* C12: the function returns total_months / 12 rounded to one decimal and
\* never a negative value; total_months is the straight sum of the month
\* differences of the qualifying (non-internship) ranges that parse and end
\* strictly after their start, and N * 12 of an "<N> years" mention only
\* when that sum is zero.
ExperienceIsSumOfQualifying ==
  parsed.done =>
    /\ parsed.out = PyFloat(round(10 * TotalMonths({r \in MatchedRanges : Internship(r)}), 12))
    /\ parsed.out.tenths >= 0

\* what holds of every resume: the same sum with a range left out only when
\* "intern" stands in the matched text itself
ExperienceIsSumOfUnskipped ==
  parsed.done =>
    /\ parsed.out = PyFloat(round(10 * TotalMonths({r \in MatchedRanges : InternInMatch(r)}), 12))
    /\ parsed.out.tenths >= 0

\* an internship named right before its year is skipped
InternshipSkipped ==
  /\ parsed.done
  /\ \E r \in MatchedRanges : InternInMatch(r) /\ Span(r) > 0 /\ r.months = 0

\* overlapping ranges are both counted, and a tie is rounded to the even tenth
OverlapCountedTwice ==
  /\ parsed.done
  /\ \E r, q \in MatchedRanges :
       /\ r.start < q.start
       /\ r.months > 0 /\ q.months > 0
       /\ StartOf(q).y = StartOf(r).y

(***************************************************************************)
(* More of Python's str, as extract_name uses it.                          *)
(***************************************************************************)
UpperChars == Range(UpperLetters)

upperChar(c) ==
  IF \E i \in 1..26 : LowerLetters[i] = c
    THEN UpperLetters[CHOOSE i \in 1..26 : LowerLetters[i] = c]
    ELSE c

\* c.isupper() for one character
isupper(c) == c \in UpperChars

\* s.startswith(p)
startswith(s, p) ==
  Len(p) <= Len(s) /\ \A i \in 1..Len(p) : s[i] = p[i]

\* the end of the line that starts at position i: the position of its "\n",
\* or past the end of the text
line_end(t, i) ==
  IF \E k \in i..Len(t) : t[k] = "\n"
    THEN CHOOSE k \in i..Len(t) : t[k] = "\n" /\ \A j \in i..(k - 1) : t[j] # "\n"
    ELSE Len(t) + 1

\* t.splitlines() from position i on
RECURSIVE splitlines_from(_, _)
splitlines_from(t, i) ==
  IF i > Len(t) THEN <<>>
  ELSE Bind(line_end(t, i), LAMBDA e :
         <<SubSeq(t, i, e - 1)>> \o splitlines_from(t, e + 1))

splitlines(t) == splitlines_from(t, 1)

\* the characters of s that are not the empty string, which stands for a
\* character a substitution removed
kept(s) == SelectSeq(s, LAMBDA c : c # "")

\* the length of the run of characters other than white space at position i
RECURSIVE nonspace_run(_, _)
nonspace_run(s, i) ==
  IF i <= Len(s) /\ ~IsSpace(s[i]) THEN 1 + nonspace_run(s, i + 1) ELSE 0

\* s.split() from position i on
RECURSIVE split_from(_, _)
split_from(s, i) ==
  IF i > Len(s) THEN <<>>
  ELSE IF IsSpace(s[i]) THEN split_from(s, i + 1)
  ELSE Bind(i + nonspace_run(s, i), LAMBDA e :
         <<SubSeq(s, i, e - 1)>> \o split_from(s, e))

split(s) == split_from(s, 1)

\* s.title(): a letter that follows no letter is upper case, the others lower
title(s) ==
  [i \in 1..Len(s) |->
     IF s[i] \notin Letters THEN s[i]
     ELSE IF i = 1 \/ s[i - 1] \notin Letters THEN upperChar(s[i])
     ELSE lowerChar(s[i])]

(***************************************************************************)
(* extract_name (parsing.py:143-208).                                      *)
(***************************************************************************)
BAD_STARTS ==
  << <<"o", "f">>, <<"d", "u", "r", "a", "t", "i", "o", "n">>, <<"r", "o", "l", "e">>, <<"a", "d", "d", "r", "e", "s", "s">>, <<"p", "r", "o", "f", "i", "l", "e">>, <<"c", "u", "r", "r", "i", "c", "u", "l", "u", "m">>,
     <<"o", "b", "j", "e", "c", "t", "i", "v", "e">>, <<"s", "u", "m", "m", "a", "r", "y">>, <<"e", "x", "p", "e", "r", "i", "e", "n", "c", "e">>, <<"r", "e", "s", "p", "o", "n", "s", "i", "b", "i", "l", "i", "t", "i", "e", "s">>, <<"c", "o", "m", "p", "a", "n", "y">>,
     <<"s", "k", "i", "l", "l", "s">>, <<"c", "a", "r", "e", "e", "r">>, <<"p", "r", "o", "f", "e", "s", "s", "i", "o", "n", "a", "l">>, <<"w", "o", "r", "k">>, <<"e", "m", "p", "l", "o", "y", "m", "e", "n", "t">> >>

BAD_KEYWORDS ==
  << <<"d", "e", "l", "h", "i">>, <<"n", "a", "g", "a", "r">>, <<"i", "n", "d", "i", "a">>, <<"r", "o", "a", "d">>, <<"s", "e", "c", "t", "o", "r">>, <<"f", "l", "o", "o", "r">>,
     <<"s", "t", "r", "e", "e", "t">>, <<"l", "a", "n", "e">>, <<"r", "e", "p", "u", "t", "e">>, <<"t", "i", "l", "l", " ", "d", "a", "t", "e">>, <<"t", "i", "l", "l">>, <<"d", "a", "t", "e">> >>

CONTACT_HINTS ==
  << <<"@">>, <<"e", "m", "a", "i", "l">>, <<"e", "-", "m", "a", "i", "l">>, <<"p", "h", "o", "n", "e">>, <<"m", "o", "b", "i", "l", "e">>, <<"c", "o", "n", "t", "a", "c", "t">> >>

\* lines[:12]
NAME_SCAN_LINES == 12

\* [l.strip() for l in text.splitlines() if l.strip()]
nonblank_lines(t) ==
  Bind(splitlines(t), LAMBDA ls :
    SelectSeq([k \in 1..Len(ls) |-> strip(ls[k])], LAMBDA l : l # <<>>))

\* the characters re.sub(r"[^A-Za-z\s\-']", " ", line) leaves alone
NameChars == Letters \cup {"-", "'"}

blank_out(line) ==
  [i \in 1..Len(line) |->
     IF line[i] \in NameChars \/ IsSpace(line[i]) THEN line[i] ELSE " "]

\* re.sub(r"\s{2,}", " ", s)
collapse_spaces(s) ==
  kept([i \in 1..Len(s) |->
          IF ~IsSpace(s[i]) THEN s[i]
          ELSE IF i > 1 /\ IsSpace(s[i - 1]) THEN ""
          ELSE IF i < Len(s) /\ IsSpace(s[i + 1]) THEN " "
          ELSE s[i]])

name_clean(line) ==
  Bind(strip(blank_out(line)), LAMBDA stripped : collapse_spaces(stripped))

\* the body of the loop: the cleaned line when it becomes a candidate, the
\* empty string when the line is skipped
candidate(line) ==
  Bind(lower(line), LAMBDA low :
    IF \E k \in 1..Len(BAD_STARTS) : startswith(low, BAD_STARTS[k]) THEN <<>>
    ELSE IF \E k \in 1..Len(BAD_KEYWORDS) : StrIn(BAD_KEYWORDS[k], low) THEN <<>>
    ELSE IF \E k \in 1..Len(CONTACT_HINTS) : StrIn(CONTACT_HINTS[k], low) THEN <<>>
    ELSE Bind(name_clean(line), LAMBDA cleaned :
           Bind(split(cleaned), LAMBDA words :
             IF cleaned = <<>> THEN <<>>
             ELSE IF ~(1 <= Len(words) /\ Len(words) <= 4) THEN <<>>
             ELSE IF ~(\A k \in 1..Len(words) : isupper(words[k][1])) THEN <<>>
             ELSE cleaned)))

\* emails[0].split("@")[0]
email_local(e) ==
  IF \E k \in 1..Len(e) : e[k] = "@"
    THEN SubSeq(e, 1, (CHOOSE k \in 1..Len(e) : e[k] = "@" /\ \A j \in 1..(k - 1) : e[j] # "@") - 1)
    ELSE e

\* re.sub(r"[._\d]+", " ", local)
dots_to_space(local) ==
  LET gone == {".", "_"} \cup DigitChars
  IN  kept([i \in 1..Len(local) |->
              IF local[i] \notin gone THEN local[i]
              ELSE IF i > 1 /\ local[i - 1] \in gone THEN ""
              ELSE " "])

email_name(e) ==
  Bind(strip(dots_to_space(email_local(e))), LAMBDA local : title(local))

\* the same function scanning every line of the text
extract_name_run_unlimited(t, emails) ==
  Bind(nonblank_lines(t), LAMBDA lines :
    Bind(SelectSeq([k \in 1..Len(lines) |-> candidate(lines[k])], LAMBDA c : c # <<>>),
         LAMBDA candidates :
      IF candidates # <<>> THEN candidates[1]
      ELSE IF emails # <<>> THEN email_name(emails[1])
      ELSE <<>>))

extract_name_run(t, emails) ==
  Bind(Take(nonblank_lines(t), NAME_SCAN_LINES), LAMBDA lines :
    Bind(SelectSeq([k \in 1..Len(lines) |-> candidate(lines[k])], LAMBDA c : c # <<>>),
         LAMBDA candidates :
      IF candidates # <<>> THEN candidates[1]
      ELSE IF emails # <<>> THEN email_name(emails[1])
      ELSE <<>>))

(***************************************************************************)
(* extract_name applied to sample resumes: header lines that are skipped,  *)
(* then a few lines drawn from the samples.                                *)
(***************************************************************************)
\* lines of a sample resume after its header lines
MaxNameLines == 2

NameLines ==
  << <<"J", "o", "h", "n", " ", "A", "n", "d", "r", "e", "w", " ", "S", "m", "i", "t", "h">>,
     <<" ", " ", "D", "r", ".", " ", "M", "a", "r", "y", "-", "A", "n", "n", " ", "O", "'", "N", "e", "i", "l", " ">>,
     <<"P", "l", "o", "t", " ", "7", ",", " ", "S", "e", "c", "t", "o", "r", " ", "5">>,
     <<"S", "u", "m", "m", "a", "r", "y">>,
     <<"E", "m", "a", "i", "l", ":", " ", "j", "a", "n", "e", ".", "d", "o", "e", "@", "x", ".", "c", "o", "m">>,
     <<"s", "e", "n", "i", "o", "r", " ", "C", "l", "o", "u", "d", " ", "E", "n", "g", "i", "n", "e", "e", "r">>,
     <<"K", "e", "y", " ", "A", "c", "c", "o", "u", "n", "t", " ", "M", "a", "n", "a", "g", "e", "r", " ", "A", "t", " ", "A", "c", "m", "e">>,
     <<"2", "0", "1", "9", " ", "-", " ", "2", "0", "2", "0">>,
     <<>> >>

HeaderLine == <<"C", "u", "r", "r", "i", "c", "u", "l", "u", "m", " ", "V", "i", "t", "a", "e">>

\* the numbers of header lines: none, one less than the scan reaches, as
\* many as the scan reaches
Leads == {0, NAME_SCAN_LINES - 1, NAME_SCAN_LINES}

NameTexts ==
  UNION {{join(NEWLINE, [i \in 1..(lead + k) |->
                           IF i <= lead THEN HeaderLine ELSE NameLines[pick[i - lead]]]) :
            pick \in [1..k -> 1..Len(NameLines)]} : lead \in Leads, k \in 0..MaxNameLines}

EmailLists ==
  { <<>>,
    << <<"j", "a", "n", "e", ".", "d", "o", "e", "@", "x", ".", "c", "o", "m">> >>,
    << <<"j", "_", "s", "m", "i", "t", "h", "9", "9", "@", "x", ".", "c", "o", "m">>, <<"o", "t", "h", "e", "r", "@", "y", ".", "o", "r", "g">> >>,
    << <<"j", "a", "n", "e", "-", "d", "o", "e", "@", "x", ".", "c", "o", "m">> >> }

InitName ==
  /\ cv \in NameTexts
  /\ cv_emails \in EmailLists
  /\ vocabulary = NoVocabulary
  /\ clock = [y |-> 0, m |-> 1]
  /\ dateparser = "strict"
  /\ parsed = NotParsed
  /\ Idle
  /\ NoUpload

extract_name ==
  /\ ~parsed.done
  /\ \E r \in {extract_name_run(cv, cv_emails)} :
       parsed' = [done |-> TRUE, out |-> r]
  /\ UNCHANGED <<cv, cv_emails, vocabulary, clock, dateparser>>
  /\ UNCHANGED scoringVars
  /\ UNCHANGED extractionVars

NextName == extract_name

SpecName == InitName /\ [][NextName]_vars

(***************************************************************************)
(* Properties of extract_name.                                             *)
(***************************************************************************)
\* the maximal stretches <<first, last>> of s made of the given characters
Stretches(s, chars) ==
  LET firsts == {i \in 1..Len(s) : s[i] \in chars /\ (i = 1 \/ s[i - 1] \notin chars)}
      lasts == {j \in 1..Len(s) : s[j] \in chars /\ (j = Len(s) \/ s[j + 1] \notin chars)}
  IN  {r \in firsts \X lasts :
         r[1] <= r[2] /\ \A k \in r[1]..r[2] : s[k] \in chars}

\* the n-th of them from the left
Stretch(s, chars, n) ==
  LET all == Stretches(s, chars)
  IN  CHOOSE r \in all : Cardinality({q \in all : q[1] < r[1]}) = n - 1

\* what stands between two stretches once the line is cleaned: a single
\* white-space character stays, anything else becomes one space
Gap(s, from, to) ==
  IF from = to /\ IsSpace(s[from]) THEN <<s[from]>> ELSE <<" ">>

\* the first n stretches of s with the cleaned gaps between them
RECURSIVE Cleaned(_, _, _)
Cleaned(s, chars, n) ==
  IF n = 0 THEN <<>>
  ELSE IF n = 1 THEN SubSeq(s, Stretch(s, chars, 1)[1], Stretch(s, chars, 1)[2])
  ELSE Cleaned(s, chars, n - 1)
         \o Gap(s, Stretch(s, chars, n - 1)[2] + 1, Stretch(s, chars, n)[1] - 1)
         \o SubSeq(s, Stretch(s, chars, n)[1], Stretch(s, chars, n)[2])

CleanedForm(line) == Cleaned(line, NameChars, Cardinality(Stretches(line, NameChars)))

\* the line passes every rule of the scan
Passes(line) ==
  LET low == lower(line)
      words == Stretches(line, NameChars)
  IN  /\ \A k \in 1..Len(BAD_STARTS) : ~startswith(low, BAD_STARTS[k])
      /\ \A k \in 1..Len(BAD_KEYWORDS) : ~StrIn(BAD_KEYWORDS[k], low)
      /\ \A k \in 1..Len(CONTACT_HINTS) : ~StrIn(CONTACT_HINTS[k], low)
      /\ Cardinality(words) \in 1..4
      /\ \A r \in words : line[r[1]] \in UpperChars

\* the positions, among the first 12 of the given non-blank lines, of the
\* lines that pass
PassingLines(lines) ==
  {k \in 1..Min(Len(lines), NAME_SCAN_LINES) : Passes(lines[k])}

\* the local part of the first email with every stretch of characters outside
\* `stay` turned into one space, title-cased
FromEmail(stay) ==
  LET local == email_local(cv_emails[1])
      n == Cardinality(Stretches(local, stay))
      joined == Cleaned(local, stay, n)
  IN  title([i \in 1..Len(joined) |-> IF joined[i] \in stay THEN joined[i] ELSE " "])

\* the rule of the claim, with the characters the email fallback keeps
NameRule(stay) ==
  parsed.done =>
    LET lines == nonblank_lines(cv)
        passing == PassingLines(lines)
    IN  IF passing # {} THEN parsed.out = CleanedForm(lines[SetMin(passing)])
        ELSE IF cv_emails # <<>> THEN parsed.out = FromEmail(stay)
        ELSE parsed.out = <<>>

\* C13: the result is the cleaned form of the earliest of the first 12
\* non-blank lines that passes every rule; failing that, the local part of
\* the first email with digits and punctuation stripped, title-cased;
\* failing that, the empty string.
NameFromLineOrEmail == NameRule(Letters)

\* C13, amended: as above, but the email fallback replaces only dots,
\* underscores and digits (each run by one space); any other character of
\* the local part, such as a hyphen or a plus sign, stays in the result.
NameFromLineOrEmailKeepingSigns ==
  NameRule(IF cv_emails = <<>> THEN {}
           ELSE Range(email_local(cv_emails[1])) \ ({".", "_"} \cup DigitChars))

\* a line that passes stands right after the 12th non-blank line, none
\* passes before it, and the result comes from an email with a hyphen
ThirteenthLineIgnored ==
  /\ parsed.done
  /\ Len(nonblank_lines(cv)) > NAME_SCAN_LINES
  /\ Passes(nonblank_lines(cv)[NAME_SCAN_LINES + 1])
  /\ PassingLines(nonblank_lines(cv)) = {}
  /\ cv_emails # <<>>
  /\ "-" \in Range(parsed.out)

(***************************************************************************)
(* extract_skills (parsing.py:214-241) with its optional vocabulary, on    *)
(* the sample texts of the scoring engine.                                 *)
(***************************************************************************)
\* if skills_master is None: skills_master = TECH_DICTIONARY
extract_skills_run(t, master) ==
  IF master.given THEN extract_skills(t, master.list) ELSE skills_in(t)

\* phrases of a caller-supplied vocabulary
MaxPhrases == 2

Phrases ==
  << <<"a", "w", "s">>, <<"A", "W", "S">>, <<"a", "m", "a", "z", "o", "n", " ", "w", "e", "b", " ", "s", "e", "r", "v", "i", "c", "e", "s">>, <<"A", "m", "a", "z", "o", "n", " ", "W", "e", "b", " ", "S", "e", "r", "v", "i", "c", "e", "s">>,
     <<"g", "o", "o", "g", "l", "e", " ", "c", "l", "o", "u", "d">>, <<"c", "r", "m">>, <<"p", "a", "a", "s">>, <<"v", "m">> >>

Vocabularies ==
  {NoVocabulary} \cup
  UNION {{[given |-> TRUE, list |-> [i \in 1..k |-> Phrases[pick[i]]]] :
            pick \in [1..k -> 1..Len(Phrases)]} : k \in 0..MaxPhrases}

InitSkills ==
  /\ cv \in Texts(MaxFrags)
  /\ vocabulary \in Vocabularies
  /\ cv_emails = <<>>
  /\ clock = [y |-> 0, m |-> 1]
  /\ dateparser = "strict"
  /\ parsed = NotParsed
  /\ Idle
  /\ NoUpload

call_extract_skills ==
  /\ ~parsed.done
  /\ \E r \in {extract_skills_run(cv, vocabulary)} :
       parsed' = [done |-> TRUE, out |-> r]
  /\ UNCHANGED <<cv, cv_emails, vocabulary, clock, dateparser>>
  /\ UNCHANGED scoringVars
  /\ UNCHANGED extractionVars

NextSkills == call_extract_skills

SpecSkills == InitSkills /\ [][NextSkills]_vars

(***************************************************************************)
(* Properties of extract_skills.                                           *)
(***************************************************************************)
\* the phrases of the vocabulary in force
Vocabulary ==
  IF vocabulary.given THEN Range(vocabulary.list) ELSE Range(TECH_DICTIONARY)

\* the phrase occurs in the resume text, letter case ignored
Occurs(p) == StrIn(lower(p), lower(cv))

Synonyms == {<<"a", "m", "a", "z", "o", "n", " ", "w", "e", "b", " ", "s", "e", "r", "v", "i", "c", "e", "s">>, <<"m", "i", "c", "r", "o", "s", "o", "f", "t", " ", "a", "z", "u", "r", "e">>, <<"g", "o", "o", "g", "l", "e", " ", "c", "l", "o", "u", "d">>}

ShortForm(p) ==
  IF p = <<"a", "m", "a", "z", "o", "n", " ", "w", "e", "b", " ", "s", "e", "r", "v", "i", "c", "e", "s">> THEN <<"a", "w", "s">>
  ELSE IF p = <<"m", "i", "c", "r", "o", "s", "o", "f", "t", " ", "a", "z", "u", "r", "e">> THEN <<"a", "z", "u", "r", "e">>
  ELSE <<"g", "c", "p">>

\* C14: the result is sorted and free of duplicates; a phrase of the
\* vocabulary other than the three synonym phrases is in it exactly when it
\* occurs in the text (letter case ignored) or it is the short form of a
\* synonym phrase of the vocabulary that occurs; the synonym phrases are
\* never in it, and nothing else is.
SkillsAreOccurringPhrases ==
  parsed.done =>
    LET out == parsed.out
        replaced == {ShortForm(s) : s \in {v \in Vocabulary \cap Synonyms : Occurs(v)}}
    IN  /\ \A i \in 1..(Len(out) - 1) : StrLess(out[i], out[i + 1])
        /\ Range(out) \cap Synonyms = {}
        /\ \A p \in Vocabulary \ Synonyms : p \in Range(out) <=> (Occurs(p) \/ p \in replaced)
        /\ Range(out) \subseteq (Vocabulary \ Synonyms) \cup replaced

\* a caller's vocabulary holds a synonym phrase and a phrase in upper case;
\* both occur in the text in another letter case, and the result holds the
\* short form and the upper-case phrase
SynonymOfCallerReplaced ==
  /\ parsed.done
  /\ vocabulary.given
  /\ <<"a", "m", "a", "z", "o", "n", " ", "w", "e", "b", " ", "s", "e", "r", "v", "i", "c", "e", "s">> \in Vocabulary
  /\ <<"A", "W", "S">> \in Vocabulary
  /\ ~StrIn(<<"a", "m", "a", "z", "o", "n", " ", "w", "e", "b", " ", "s", "e", "r", "v", "i", "c", "e", "s">>, cv)
  /\ parsed.out = << <<"A", "W", "S">>, <<"a", "w", "s">> >>

(***************************************************************************)
(* EMAIL_RE and PHONE_RE (parsing.py:50-51), matched as re's backtracking  *)
(* matcher does.                                                           *)
(***************************************************************************)
\* [a-zA-Z0-9_.+-]
EmailLocalChars == Letters \cup DigitChars \cup {"_", ".", "+", "-"}

\* [a-zA-Z0-9-]
EmailHostChars == Letters \cup DigitChars \cup {"-"}

\* [a-zA-Z0-9-.]
EmailTailChars == EmailHostChars \cup {"."}

\* [\d\-\s\(\)]
PhoneChars == DigitChars \cup {"-", "(", ")", " ", "\n", "\t"}

\* the length of the run of the given characters that starts at position i
RECURSIVE run_of(_, _, _)
run_of(t, i, chars) ==
  IF i <= Len(t) /\ t[i] \in chars THEN 1 + run_of(t, i + 1, chars) ELSE 0

\* EMAIL_RE.match at position i: where the match ends.  Each class stops
\* before the character the pattern wants next, so giving characters back
\* never helps
email_at(t, i) ==
  Bind(i + run_of(t, i, EmailLocalChars), LAMBDA at :
    IF ~(at > i /\ at <= Len(t) /\ t[at] = "@") THEN 0
    ELSE Bind(at + 1 + run_of(t, at + 1, EmailHostChars), LAMBDA dot :
           IF ~(dot > at + 1 /\ dot <= Len(t) /\ t[dot] = ".") THEN 0
           ELSE Bind(run_of(t, dot + 1, EmailTailChars), LAMBDA tail :
                  IF tail = 0 THEN 0 ELSE dot + 1 + tail)))

\* PHONE_RE.match at position i: where the match ends.  The class takes its
\* whole run and gives characters back until a digit closes the match, with
\* seven characters or more left between the first digit and the last
phone_at(t, i) ==
  Bind(IF t[i] = "+" THEN i + 1 ELSE i, LAMBDA first :
    IF ~(first <= Len(t) /\ t[first] \in DigitChars) THEN 0
    ELSE Bind(run_of(t, first + 1, PhoneChars), LAMBDA run :
           Bind({d \in (first + 8)..(first + run) : t[d] \in DigitChars}, LAMBDA closing :
             IF closing = {} THEN 0 ELSE SetMax(closing) + 1)))

\* EMAIL_RE.findall(t)
EMAIL_RE_findall(t) ==
  Bind({m \in {<<i, email_at(t, i)>> : i \in 1..Len(t)} : m[2] # 0}, LAMBDA found :
    Bind(leftmost_from(found, 1), LAMBDA spans :
      [k \in 1..Len(spans) |-> SubSeq(t, spans[k][1], spans[k][2] - 1)]))

\* PHONE_RE.findall(t)
PHONE_RE_findall(t) ==
  Bind({m \in {<<i, phone_at(t, i)>> : i \in 1..Len(t)} : m[2] # 0}, LAMBDA found :
    Bind(leftmost_from(found, 1), LAMBDA spans :
      [k \in 1..Len(spans) |-> SubSeq(t, spans[k][1], spans[k][2] - 1)]))

(***************************************************************************)
(* phonenumbers.parse(p, None) followed by format_number(..., E164)        *)
(* (parsing.py:121-125).  Without a default region the library accepts     *)
(* only a number written with "+" and a country calling code it knows, and *)
(* E.164 is "+" and the digits; anything else raises.                      *)
(***************************************************************************)
CallingCodes == {<<"1">>, <<"4", "4">>, <<"9", "1">>}

\* re.sub(r"\D", "", p)
digits_only(p) == SelectSeq(p, LAMBDA c : c \in DigitChars)

phonenumbers_e164(p) ==
  Bind(digits_only(p), LAMBDA digits :
    IF p[1] = "+" /\ \E code \in CallingCodes : startswith(digits, code)
      THEN Ok(<<"+">> \o digits)
      ELSE Raise("NumberParseException"))

(***************************************************************************)
(* extract_contacts (parsing.py:111-137).                                  *)
(***************************************************************************)
\* the body of the loop over phones_raw: what is appended to phones
normalize_phone(p) ==
  Bind(phonenumbers_e164(p), LAMBDA num :
    IF num.ok THEN num.v ELSE digits_only(p))

\* dedupe(seq): the first of equal values stays, in its place
RECURSIVE dedupe_loop(_, _)
dedupe_loop(seq, k) ==
  IF k = 0 THEN <<>>
  ELSE Bind(dedupe_loop(seq, k - 1), LAMBDA out :
         IF seq[k] \in Range(out) THEN out ELSE Append(out, seq[k]))

dedupe(seq) == dedupe_loop(seq, Len(seq))

\* the matches the loop does not pass over: those with a digit
with_digits(phones_raw) == SelectSeq(phones_raw, LAMBDA p : digits_only(p) # <<>>)

\* the same function with the phones deduplicated as matched, before they
\* are normalized
extract_contacts_run_dedupe_raw(t) ==
  Bind(EMAIL_RE_findall(t), LAMBDA emails :
    Bind(dedupe(with_digits(PHONE_RE_findall(t))), LAMBDA phones_raw :
      Bind([k \in 1..Len(phones_raw) |-> normalize_phone(phones_raw[k])], LAMBDA phones :
        [emails |-> dedupe(emails), phones |-> phones])))

extract_contacts_run(t) ==
  Bind(EMAIL_RE_findall(t), LAMBDA emails :
    Bind(with_digits(PHONE_RE_findall(t)), LAMBDA phones_raw :
      Bind([k \in 1..Len(phones_raw) |-> normalize_phone(phones_raw[k])], LAMBDA phones :
        [emails |-> dedupe(emails), phones |-> dedupe(phones)])))

(***************************************************************************)
(* extract_contacts applied to sample resumes.                             *)
(***************************************************************************)
\* lines of a sample resume
MaxContactLines == 2

ContactLines ==
  << <<"E", "m", "a", "i", "l", ":", " ", "j", "a", "n", "e", ".", "d", "o", "e", "@", "x", ".", "c", "o", "m">>,
     <<"j", "a", "n", "e", ".", "d", "o", "e", "@", "x", ".", "c", "o", "m", ",", " ", "j", "_", "s", "m", "i", "t", "h", "9", "9", "@", "y", ".", "o", "r", "g">>,
     <<"+", "1", " ", "4", "1", "5", "-", "5", "5", "5", "-", "0", "1", "0", "0">>,
     <<"+", "1", "4", "1", "5", "5", "5", "5", "0", "1", "0", "0">>,
     <<"P", "h", "o", "n", "e", ":", " ", "(", "4", "1", "5", ")", " ", "5", "5", "5", "-", "0", "1", "0", "0">>,
     <<"M", "o", "b", "i", "l", "e", " ", "9", "8", "7", "6", "5", " ", "4", "3", "2", "1", "0">>,
     <<"J", "a", "n", " ", "2", "0", "1", "9", " ", "-", " ", "J", "u", "n", " ", "2", "0", "1", "9">>,
     <<"+", "9", "1", "-", "9", "8", "7", "6", "5", "-", "4", "3", "2", "1", "0", " ", "/", " ", "+", "9", "1", " ", "9", "8", "7", "6", "5", "4", "3", "2", "1", "0">> >>

ContactTexts ==
  UNION {{join(NEWLINE, [i \in 1..k |-> ContactLines[pick[i]]]) :
            pick \in [1..k -> 1..Len(ContactLines)]} : k \in 0..MaxContactLines}

InitContacts ==
  /\ cv \in ContactTexts
  /\ cv_emails = <<>>
  /\ vocabulary = NoVocabulary
  /\ clock = [y |-> 0, m |-> 1]
  /\ dateparser = "strict"
  /\ parsed = NotParsed
  /\ Idle
  /\ NoUpload

extract_contacts ==
  /\ ~parsed.done
  /\ \E r \in {extract_contacts_run(cv)} :
       parsed' = [done |-> TRUE, emails |-> r.emails, phones |-> r.phones]
  /\ UNCHANGED <<cv, cv_emails, vocabulary, clock, dateparser>>
  /\ UNCHANGED scoringVars
  /\ UNCHANGED extractionVars

NextContacts == extract_contacts

SpecContacts == InitContacts /\ [][NextContacts]_vars

(***************************************************************************)
(* Properties of extract_contacts.                                         *)
(***************************************************************************)
NoRepeat(seq) == \A i, j \in 1..Len(seq) : i # j => seq[i] # seq[j]

\* where x stands first in seq
FirstAt(seq, x) == SetMin({k \in 1..Len(seq) : seq[k] = x})

\* out holds the values of found, each in the place of its first occurrence
InFirstSeenOrder(out, found) ==
  /\ Range(out) = Range(found)
  /\ \A i, j \in 1..Len(out) : i < j => FirstAt(found, out[i]) < FirstAt(found, out[j])

\* the number parses internationally
Parseable(p) == phonenumbers_e164(p).ok

\* what a match is kept as: the library's E.164 form, or its digits
KeptAs(p) == IF Parseable(p) THEN phonenumbers_e164(p).v ELSE digits_only(p)

\* C15: neither list holds a value twice and both keep the order of first
\* occurrence in the text; the phones are compared after normalization, so
\* two matches of one parseable number written differently give one entry,
\* and a match that does not parse is kept as its digits.
ContactsDeduplicated ==
  parsed.done =>
    LET emails == EMAIL_RE_findall(cv)
        phones == PHONE_RE_findall(cv)
    IN  /\ NoRepeat(parsed.emails)
        /\ NoRepeat(parsed.phones)
        /\ InFirstSeenOrder(parsed.emails, emails)
        /\ InFirstSeenOrder(parsed.phones, [k \in 1..Len(phones) |-> KeptAs(phones[k])])
        /\ \A k, n \in 1..Len(phones) :
             (/\ Parseable(phones[k]) /\ Parseable(phones[n])
              /\ digits_only(phones[k]) = digits_only(phones[n]))
               => Cardinality({i \in 1..Len(parsed.phones) :
                                 parsed.phones[i] \in {KeptAs(phones[k]), KeptAs(phones[n])}}) = 1
        /\ \A k \in 1..Len(phones) :
             ~Parseable(phones[k]) =>
               /\ digits_only(phones[k]) \in Range(parsed.phones)
               /\ \A c \in Range(KeptAs(phones[k])) : c \in DigitChars

\* one parseable number matched twice with different separators and a
\* number that does not parse: two entries
SameNumberWrittenTwice ==
  /\ parsed.done
  /\ \E k, n \in 1..Len(PHONE_RE_findall(cv)) :
       LET p == PHONE_RE_findall(cv)[k]
           q == PHONE_RE_findall(cv)[n]
       IN  p # q /\ Parseable(p) /\ Parseable(q) /\ digits_only(p) = digits_only(q)
  /\ \E k \in 1..Len(PHONE_RE_findall(cv)) : ~Parseable(PHONE_RE_findall(cv)[k])
  /\ Len(parsed.phones) = 2

(***************************************************************************)
(* core/parsing.py: extract_education.                                     *)
(***************************************************************************)
EDU_PRIORITY ==
  << <<"p", "h", "d">>, <<"d", "o", "c", "t", "o", "r", "a", "t", "e">>, <<"m", "b", "a">>, <<"m", ".", "t", "e", "c", "h">>, <<"m", "t", "e", "c", "h">>, <<"m", "s", "c">>, <<"m", "a", "s", "t", "e", "r">>, <<"m", "a", "s", "t", "e", "r", "s">>,
     <<"b", ".", "t", "e", "c", "h">>, <<"b", "t", "e", "c", "h">>, <<"b", ".", "e">>, <<"b", "e">>, <<"b", "s", "c">>, <<"b", "a", "c", "h", "e", "l", "o", "r">>, <<"d", "i", "p", "l", "o", "m", "a">> >>

\* the dict, as its items
EDU_CANON ==
  { <<<<"p", "h", "d">>, <<"P", "h", "D">>>>,
    <<<<"m", "b", "a">>, <<"M", "B", "A">>>>,
    <<<<"m", ".", "t", "e", "c", "h">>, <<"M", ".", "T", "e", "c", "h">>>>,
    <<<<"m", "s", "c">>, <<"M", ".", "S", "c">>>>,
    <<<<"b", ".", "t", "e", "c", "h">>, <<"B", ".", "T", "e", "c", "h">>>>,
    <<<<"b", ".", "e">>, <<"B", ".", "E", ".">>>>,
    <<<<"b", "s", "c">>, <<"B", ".", "S", "c">>>>,
    <<<<"d", "i", "p", "l", "o", "m", "a">>, <<"D", "i", "p", "l", "o", "m", "a">>>> }

\* EDU_CANON.get(k, default)
EDU_CANON_get(k, default) ==
  IF \E item \in EDU_CANON : item[1] = k
    THEN (CHOOSE item \in EDU_CANON : item[1] = k)[2]
    ELSE default

\* the loop over EDU_PRIORITY from its i-th keyword on
RECURSIVE education_from(_, _)
education_from(tl, i) ==
  IF i > Len(EDU_PRIORITY) THEN <<>>
  ELSE IF StrIn(EDU_PRIORITY[i], tl)
         THEN EDU_CANON_get(EDU_PRIORITY[i], title(EDU_PRIORITY[i]))
  ELSE education_from(tl, i + 1)

\* the loop taken from the end of the list: the last keyword found wins
RECURSIVE education_from_end(_, _)
education_from_end(tl, i) ==
  IF i < 1 THEN <<>>
  ELSE IF StrIn(EDU_PRIORITY[i], tl)
         THEN EDU_CANON_get(EDU_PRIORITY[i], title(EDU_PRIORITY[i]))
  ELSE education_from_end(tl, i - 1)

\* the same function with the list scanned backwards
extract_education_run_backwards(t) ==
  Bind(lower(t), LAMBDA tl : education_from_end(tl, Len(EDU_PRIORITY)))

extract_education_run(t) ==
  Bind(lower(t), LAMBDA tl : education_from(tl, 1))

(***************************************************************************)
(* extract_education applied to sample resumes.                            *)
(***************************************************************************)
\* degree mentions in a sample resume
MaxDegrees == 2

EducationLines ==
  << <<"P", "h", "D", " ", "i", "n", " ", "P", "h", "y", "s", "i", "c", "s">>,
     <<"D", "o", "c", "t", "o", "r", "a", "t", "e">>,
     <<"M", "B", "A", " ", "(", "F", "i", "n", "a", "n", "c", "e", ")">>,
     <<"M", ".", "S", "c", " ", "M", "a", "t", "h", "e", "m", "a", "t", "i", "c", "s">>,
     <<"M", "a", "s", "t", "e", "r", " ", "o", "f", " ", "S", "c", "i", "e", "n", "c", "e">>,
     <<"B", ".", "T", "e", "c", "h", " ", "C", "o", "m", "p", "u", "t", "e", "r", " ", "S", "c", "i", "e", "n", "c", "e">>,
     <<"B", "T", "E", "C", "H">>,
     <<"B", ".", "E", ".", " ", "M", "e", "c", "h", "a", "n", "i", "c", "a", "l">>,
     <<"B", "a", "c", "h", "e", "l", "o", "r", " ", "o", "f", " ", "A", "r", "t", "s">>,
     <<"D", "i", "p", "l", "o", "m", "a", " ", "i", "n", " ", "D", "e", "s", "i", "g", "n">>,
     <<"M", "e", "m", "b", "e", "r", " ", "o", "f", " ", "t", "h", "e", " ", "b", "o", "a", "r", "d">>,
     <<"S", "a", "l", "e", "s", " ", "m", "a", "n", "a", "g", "e", "r">> >>

EducationTexts ==
  UNION {{join(<<",", " ">>, [i \in 1..k |-> EducationLines[pick[i]]]) :
            pick \in [1..k -> 1..Len(EducationLines)]} : k \in 0..MaxDegrees}

InitEducation ==
  /\ cv \in EducationTexts
  /\ cv_emails = <<>>
  /\ vocabulary = NoVocabulary
  /\ clock = [y |-> 0, m |-> 1]
  /\ dateparser = "strict"
  /\ parsed = NotParsed
  /\ Idle
  /\ NoUpload

extract_education ==
  /\ ~parsed.done
  /\ \E r \in {extract_education_run(cv)} :
       parsed' = [done |-> TRUE, out |-> r]
  /\ UNCHANGED <<cv, cv_emails, vocabulary, clock, dateparser>>
  /\ UNCHANGED scoringVars
  /\ UNCHANGED extractionVars

NextEducation == extract_education

SpecEducation == InitEducation /\ [][NextEducation]_vars

(***************************************************************************)
(* Properties of extract_education.                                        *)
(***************************************************************************)
DoctorateLevel == {<<"p", "h", "d">>, <<"d", "o", "c", "t", "o", "r", "a", "t", "e">>}

MastersLevel == {<<"m", "b", "a">>, <<"m", ".", "t", "e", "c", "h">>, <<"m", "t", "e", "c", "h">>, <<"m", "s", "c">>, <<"m", "a", "s", "t", "e", "r">>, <<"m", "a", "s", "t", "e", "r", "s">>}

BachelorLevel == {<<"b", ".", "t", "e", "c", "h">>, <<"b", "t", "e", "c", "h">>, <<"b", ".", "e">>, <<"b", "e">>, <<"b", "s", "c">>, <<"b", "a", "c", "h", "e", "l", "o", "r">>}

DiplomaLevel == {<<"d", "i", "p", "l", "o", "m", "a">>}

\* 1 for the highest level
LevelOf(k) ==
  IF k \in DoctorateLevel THEN 1
  ELSE IF k \in MastersLevel THEN 2
  ELSE IF k \in BachelorLevel THEN 3
  ELSE 4

\* the label returned for a keyword: its dict entry, or the keyword in title case
LabelOf(k) == EDU_CANON_get(k, title(k))

\* the places of the list whose keyword occurs in t, letter case apart
KeywordsIn(t) == {i \in 1..Len(EDU_PRIORITY) : StrIn(EDU_PRIORITY[i], lower(t))}

\* where keyword k first occurs in t
PlaceIn(t, k) ==
  SetMin({i \in 1..Len(t) : i + Len(k) - 1 <= Len(t) /\ SubSeq(lower(t), i, i + Len(k) - 1) = k})

\* C16: the result is one string: the label of the keyword that stands first
\* in the list among those occurring in the text, letter case apart, the list
\* going from doctorate over masters and bachelor to diploma; so with a
\* masters and a bachelor keyword (and none of doctorate level) in the text
\* the label is a masters one; with no keyword in the text it is empty.
EducationIsHighestDegree ==
  parsed.done =>
    LET places == KeywordsIn(cv)
        found == {EDU_PRIORITY[i] : i \in places}
    IN  /\ \A i, j \in 1..Len(EDU_PRIORITY) :
             i < j => LevelOf(EDU_PRIORITY[i]) <= LevelOf(EDU_PRIORITY[j])
        /\ Range(EDU_PRIORITY) =
             DoctorateLevel \cup MastersLevel \cup BachelorLevel \cup DiplomaLevel
        /\ places = {} => parsed.out = <<>>
        /\ places # {} =>
             /\ parsed.out = LabelOf(EDU_PRIORITY[SetMin(places)])
             /\ parsed.out # <<>>
             /\ \E k \in found :
                  /\ parsed.out = LabelOf(k)
                  /\ \A other \in found : LevelOf(k) <= LevelOf(other)
        /\ (/\ found \cap MastersLevel # {}
            /\ found \cap BachelorLevel # {}
            /\ found \cap DoctorateLevel = {})
             => /\ parsed.out \in {LabelOf(k) : k \in MastersLevel}
                /\ parsed.out \notin {LabelOf(k) : k \in BachelorLevel}

\* "B.Tech Computer Science, MBA (Finance)": the bachelor degree stands first
\* in the text and the result is "MBA"
MastersOverBachelor ==
  /\ parsed.done
  /\ StrIn(<<"b", ".", "t", "e", "c", "h">>, lower(cv))
  /\ StrIn(<<"m", "b", "a">>, lower(cv))
  /\ PlaceIn(cv, <<"b", ".", "t", "e", "c", "h">>) < PlaceIn(cv, <<"m", "b", "a">>)
  /\ parsed.out = <<"M", "B", "A">>

====
